---- MODULE Spec2Model ----
(***************************************************************************)
(* Transcoder supervisor of fribe-co/transcode-gpu.                        *)
(*                                                                         *)
(* The model covers the process lifecycle controller (ProcessManager in    *)
(* backend/internal/infrastructure/ffmpeg/process.go: Start, Stop, Restart *)
(* and the watcher goroutine watchProcess), the control facade             *)
(* (ChannelService in backend/internal/application/channel_service.go:     *)
(* StartChannel, StopChannel, RestartChannel, UpdateChannel, CreateChannel,*)
(* BatchStartChannels, BatchStopChannels and batchProcess), the settings   *)
(* update (SettingsHandler.Update, SettingsService.UpdateSettings), the    *)
(* auth middleware and the route table (middleware/auth.go, routes.go) and *)
(* the startup tasks of main (cleanHLSHistory, stopAllRunningChannels).    *)
(*                                                                         *)
(* Specifications: Spec (single-channel lifecycle calls), SpecBatch (batch *)
(* calls), SpecBatchProcess (batchProcess for any processFunc), SpecApi    *)
(* (lifecycle calls with channel updates, settings updates and             *)
(* ProcessManager.Restart), SpecHttp (requests through the middleware      *)
(* chain) and SpecBoot (the startup tasks).  Calls to the store are taken  *)
(* to succeed.                                                             *)
(*                                                                         *)
(* Granularity: every section executed under ProcessManager.mu is one      *)
(* atomic step; every database write (ChannelRepository.UpdateStatus),     *)
(* every os.RemoveAll and every blocking wait is a step of its own, so     *)
(* the goroutines interleave exactly where the Go scheduler can switch     *)
(* between observable effects.  Wall-clock time is abstracted: whether a   *)
(* child ran for at least minUptimeForRestart is chosen when it exits,     *)
(* and a timeout may fire whenever the awaited event has not happened.     *)
(***************************************************************************)
EXTENDS Integers, Sequences, FiniteSets, TLC

\* ----------------------------------------------------------------- bounds
MaxSpawns == 2
MaxCalls == 2
MaxBatches == 2
MaxBatchLen == 2
MaxEntries == 2
MaxFiles == 2
MaxRequests == 2
MaxExtraLines == 2
MaxPoolIds == 6
MaxLive == 3
MaxFields == 2
PipeLines == 1

\* -------------------------------------------------------------- constants
ConcurrentLimit == 5
\* monitorProgress keeps the last 500 lines of Process.Logs
LogLimit == 500
\* the exit message the watcher appends to Process.Logs; the lines the child
\* writes to stderr are numbered 1, 2, ...
ExitLine == 0

Channels == {"c1"}
Goroutines == {"g1", "g2", "g3"}

\* keys of the Settings struct, in the order UpdateSettings checks them
SettingsKeys ==
    <<"max_channels", "segment_time", "playlist_size", "log_retention", "default_preset",
      "default_bitrate", "default_resolution", "default_profile", "default_crf",
      "default_maxrate", "default_bufsize">>

\* the defaults GetSettings starts from
DefaultSettings ==
    [max_channels |-> 80, segment_time |-> 3, playlist_size |-> 6, log_retention |-> 1,
     default_preset |-> "veryfast", default_bitrate |-> "3500k",
     default_resolution |-> "1920x1080", default_profile |-> "high", default_crf |-> 23,
     default_maxrate |-> "3800k", default_bufsize |-> "7600k"]

\* value of the settings row `system` after the migrations ran
MigratedSystem ==
    [max_channels |-> 80, segment_time |-> 3, playlist_size |-> 6, log_retention |-> 1,
     default_preset |-> "veryfast", default_bitrate |-> "3500k",
     default_resolution |-> "1920x1080", default_profile |-> "high", default_crf |-> 23,
     default_maxrate |-> "3800k", default_bufsize |-> "7600k",
     auto_restart_enabled |-> TRUE, use_ramdisk |-> TRUE, threads_per_process |-> 1]
ManyChannels == 1..MaxLive
Mutexes == {"m.mu", "process.mu", "process.logMu", "m.numaMu"}
\* ids of the channel rows that may be stored when the supervisor boots
StoredChannels == {"c1", "c2"}
\* ids of no stored channel (GetByID fails)
UnknownIds == {"cx"}
\* SettingsService.GetSettings: default of max_channels
DefaultMaxChannels == 80
\* names under the HLS root and names of the files in a channel subdirectory
HlsEntries == 1..MaxEntries
SegmentFiles == 1..MaxFiles
NoEntry == [kind |-> "none", files |-> {}]
\* a nil *int of UpdateSettingsRequest
NilInt == -1
\* no request payload: empty name, max_channels not provided
NoReq == [name |-> "", max |-> NilInt]
\* channel names
Names == {"a", "b"}
\* a request body that parses and gives neither name nor source_url
NoBody == [ok |-> TRUE, name |-> "", src |-> ""]
Threads == {"t1", "t2"}
Pids == 1..MaxSpawns
None == 0

ChannelStatusStopped == "stopped"
ChannelStatusStarting == "starting"
ChannelStatusRunning == "running"
ChannelStatusError == "error"
ChannelStatusStopping == "stopping"
ChannelStatus == {ChannelStatusStopped, ChannelStatusStarting, ChannelStatusRunning,
                  ChannelStatusError, ChannelStatusStopping}

\* Outcomes of ProcessManager.Start that fail at spawn: the output directory
\* cannot be created, buildArgs fails (logo file missing), StderrPipe fails,
\* cmd.Start fails (binary missing or not executable).
SpawnFailures == {"mkdir", "args", "pipe", "exec"}

VARIABLES
    processes,    \* ProcessManager.processes: channel id -> pid of the recorded Process, or None
    child,        \* OS state of each child: "none", "running", "killed", "exited"
    chanOf,       \* Process.ChannelID of each spawned child
    w,            \* position of the watchProcess goroutine of each child
    wend,         \* branch on which the watcher of each child returned
    dir,          \* existence of the output directory <hlsPath>/<channel id>
    status,       \* persisted channels.status
    autoRestart,  \* persisted channels.auto_restart (snapshot in Process.Channel)
    nextPid,      \* next unused child id
    pc,           \* position of each facade goroutine
    op,           \* facade operation a goroutine is running
    arg,          \* channel id argument of that operation
    ret,          \* result of transcoder.Start pending in StartChannel
    worker,       \* the goroutine is a batchProcess worker running one job
    stopProc,     \* local `process` of ProcessManager.Stop
    jobs,         \* batchProcess: ids not yet taken by a worker
    batchOp,      \* batchProcess: processFunc of the batch ("start" or "stop")
    batchPhase,   \* batchProcess: "idle", "running", "done"
    batchIds,     \* batchProcess: the ids argument
    nSucc,        \* batchProcess: len(result.Success)
    nFail,        \* batchProcess: len(result.Failed)
    calls,        \* number of facade calls made so far
    batches,      \* number of batch calls made so far
    lastRet,      \* history: outcome of the facade call that returned last
    stopSaw,      \* history: children of the channel running when Stop was entered
    stopInPause,  \* history: a stop of the channel began during the watcher's 2 s pause
    byStop,       \* history: children whose Process a Stop took out of the table
    sent,         \* history: the signals each child was sent, in the order they were caused
    touched,      \* history: another facade call touched the channel since its last spawn
    batchClean,   \* history: nothing but the batch's own workers acted since the batch began
    success,      \* batchProcess: result.Success, the ids in the order collected
    failed,       \* batchProcess: result.Failed, the ids in the order collected
    row,          \* persisted channels.name of each channel row
    settings,     \* persisted `system` settings document (its max_channels field)
    req,          \* request payload of UpdateChannel / SettingsHandler.Update in progress
    snap,         \* row or settings document read by the request in progress
    hPhase,       \* HTTP request in the middleware chain: "idle", "auth", "role", "handler", "done"
    hRoute,       \* route of the request
    hHeader,      \* Authorization header of the request
    hRole,        \* c.Locals("user_role") of the request
    hBody,        \* body of the request
    hCode,        \* response status code, 0 while there is none
    hRan,         \* the route's handler was invoked
    requests,     \* number of HTTP requests received so far
    created,      \* channel rows inserted by ChannelRepository.Create
    boot,         \* position of main in its startup tasks
    hls,          \* entries of the HLS root directory
    stoppedCount, \* stopAllRunningChannels: rows it reset to stopped
    Logs,         \* Process.Logs of each child
    lineCount,    \* monitorProgress: lines scanned from the stderr of each child
    pipe,         \* lines each child has written to stderr that are not yet scanned
    monitor,      \* monitorProgress goroutine of each child: "none", "scan", "done"
    exitLine,     \* the watcher of the child has appended the exit message
    glPc,         \* caller of GetLogs: "idle", "copy" (process looked up), "ret"
    glProc,       \* local `process` of GetLogs
    logsOut,      \* slice GetLogs returns
    glErr,        \* error of the GetLogs / GetChannelLogs call that returned last
    glArg,        \* channel id of the Logs request in progress
    obsErr,       \* error the facade returned to the Metrics or Logs handler last
    obsCode,      \* status code of the last answer of the Metrics or Logs handler, 0 if none
    sysCache,     \* systemInfoCache: "empty" (data == nil), "fresh", "expired"
    sysData,      \* systemInfoCache.data
    sysInfo,      \* SystemInfo returned by the last GetSystemInfo
    sysErr,       \* error returned by the last GetSystemInfo
    sysProbes,    \* history: outcomes of the host probes of the last GetSystemInfo that probed
    chanTable,    \* table `channels`: the row of each id that has one
    repoOp,       \* ChannelRepository method that returned last
    repoId,       \* id it was called for
    repoArg,      \* *domain.Channel passed to the last Create or Update
    repoRet,      \* *domain.Channel returned by the last GetByID (nil: empty)
    repoErr,      \* error it returned
    mu,           \* ProcessManager.mu: "free", or the function that holds it across steps
    spawning,     \* channel a Start is creating the directory, building the args and spawning for
    rdPc,         \* caller of IsRunning: "idle", "rlock" (waiting in m.mu.RLock)
    statusCallback, \* ProcessManager.statusCallback: "nil" or the function wired to it
    cbArg,        \* argument of the SetStatusCallback that holds m.mu
    poolPc,       \* batchProcess: "idle", "send" (sending the jobs), "collect", "done"
    concurrentLimit, \* batchProcess: the limit its caller passed
    poolIds,      \* len(ids) of the call; the ids are 1..poolIds
    poolSent,     \* ids already sent on jobs
    poolJobs,     \* the jobs channel: [buf, closed]
    poolResults,  \* the results channel: the jobs sent and not received yet
    poolIdle,     \* worker goroutines waiting in `range jobs`
    poolRunning,  \* ids whose processFunc call is in progress, one worker each
    poolExited,   \* worker goroutines that left `range jobs`
    poolGot,      \* results the collector received, per id
    gOp,          \* lock order: the ProcessManager function each goroutine runs, or "idle"
    gPc,          \* lock order: index of the lock operation the goroutine is at
    writer,       \* goroutine that holds each lock for writing, or "-"
    readers,      \* goroutines that hold each RWMutex for reading
    pending,      \* goroutines waiting inside Lock() of each lock
    deletedRows,  \* channels whose row repo.Delete removed
    gsiPc,        \* callers of GetSystemInfo: "idle", or "lock" (cache miss, before mu.Lock)
    probeRuns,    \* history: runs of the host probes since the cache expired last
    entries,      \* m.processes over several channels: "none", "running", "exited" (child gone, entry kept)
    startErr,     \* result of the last Start over several channels
    systemDoc,    \* settings row `system`: the stored JSON document, key -> value
    docErr        \* result of the last SettingsService.UpdateSettings on the document

vars == <<processes, child, chanOf, w, wend, dir, status, autoRestart, nextPid,
          pc, op, arg, ret, worker, stopProc, jobs, batchOp, batchPhase, batchIds,
          nSucc, nFail, calls, batches, lastRet, stopSaw, stopInPause, byStop, sent, touched, batchClean,
          success, failed, row, settings, req, snap, hPhase, hRoute, hHeader, hRole,
          hBody, hCode, hRan, requests, created, boot, hls, stoppedCount,
          Logs, lineCount, pipe, monitor, exitLine, glPc, glProc, logsOut, glErr,
          glArg, obsErr, obsCode,
          sysCache, sysData, sysInfo, sysErr, sysProbes,
          chanTable, repoOp, repoId, repoArg, repoRet, repoErr,
          mu, spawning, rdPc, statusCallback, cbArg,
          poolPc, concurrentLimit, poolIds, poolSent, poolJobs, poolResults, poolIdle,
          poolRunning, poolExited, poolGot,
          gOp, gPc, writer, readers, pending, deletedRows, gsiPc, probeRuns,
          entries, startErr, systemDoc, docErr>>

\* groups used in UNCHANGED clauses
tableVars == <<processes, child, chanOf, nextPid>>
threadVars == <<op, arg, ret, worker, stopProc, stopSaw, lastRet>>
batchVars == <<jobs, batchOp, batchPhase, batchIds, batches>>
resultVars == <<nSucc, nFail, success, failed>>
histVars == <<stopInPause, byStop, sent, touched, batchClean>>
apiVars == <<row, settings, req, snap>>
httpVars == <<hPhase, hRoute, hHeader, hRole, hBody, hCode, hRan, requests, created>>
bootVars == <<boot, hls, stoppedCount>>
bufVars == <<Logs, lineCount, pipe, monitor, exitLine>>
handlerVars == <<glArg, obsErr, obsCode>>
logVars == <<bufVars, glPc, glProc, logsOut, glErr, handlerVars>>
\* state of the observation functions and of the stores modelled on their own
sysVars == <<sysCache, sysData, sysInfo, sysErr, sysProbes, gsiPc, probeRuns>>
repoVars == <<chanTable, repoOp, repoId, repoArg, repoRet, repoErr>>
cbVars == <<statusCallback, cbArg>>
lockVars == <<mu, spawning, rdPc, cbVars>>
poolVars == <<poolPc, concurrentLimit, poolIds, poolSent, poolJobs, poolResults, poolIdle,
              poolRunning, poolExited, poolGot>>
mutexVars == <<gOp, gPc, writer, readers, pending>>
limitVars == <<entries, startErr>>
docVars == <<systemDoc, docErr>>
moreVars == <<logVars, sysVars, repoVars, lockVars, poolVars, mutexVars, deletedRows, limitVars,
              docVars>>
\* state that no step of the lifecycle controller or of the facade writes
envVars == <<autoRestart, apiVars, httpVars, bootVars, moreVars>>
\* everything but the log buffers, the system information and the channel store
coreVars == <<tableVars, w, wend, dir, status, autoRestart, apiVars, httpVars, bootVars, pc,
              threadVars, batchVars, resultVars, calls, histVars, deletedRows, limitVars,
              docVars>>

\* ---------------------------------------------------------------- helpers

\* The watcher of child p is not in the middle of handling an exit.
WatcherIdle(p) == \/ w[p] \in {"none", "done"}
                  \/ w[p] = "wait" /\ child[p] = "running"

\* No facade call, Stop or watcher step is in progress for channel c.
Quiescent(c) ==
    /\ \A t \in Threads : pc[t] = "idle"
    /\ \A p \in Pids : chanOf[p] = c => WatcherIdle(p)
    /\ batchPhase # "running"

OthersIdle(t) == \A u \in Threads \ {t} : pc[u] = "idle"

\* ------------------------------------------------------------------- Init

\* ProcessManager after construction: no Process, no child, no directory.
InitTable ==
    /\ processes = [c \in Channels |-> None]
    /\ child = [p \in Pids |-> "none"]
    /\ chanOf = [p \in Pids |-> "-"]
    /\ w = [p \in Pids |-> "none"]
    /\ wend = [p \in Pids |-> "none"]
    /\ dir = [c \in Channels |-> FALSE]
    /\ nextPid = 1

\* ChannelService after construction: no call and no batch in progress.
InitCallers ==
    /\ pc = [t \in Threads |-> "idle"]
    /\ op = [t \in Threads |-> "none"]
    /\ arg = [t \in Threads |-> "-"]
    /\ ret = [t \in Threads |-> "none"]
    /\ worker = [t \in Threads |-> FALSE]
    /\ stopProc = [t \in Threads |-> None]
    /\ jobs = <<>>
    /\ batchOp = "none"
    /\ batchPhase = "idle"
    /\ batchIds = <<>>
    /\ nSucc = 0
    /\ nFail = 0
    /\ calls = 0
    /\ batches = 0
    /\ lastRet = "none"
    /\ stopSaw = [t \in Threads |-> {}]
    /\ stopInPause = [p \in Pids |-> FALSE]
    /\ byStop = {}
    /\ sent = [p \in Pids |-> <<>>]
    /\ touched = [c \in Channels |-> FALSE]
    /\ batchClean = FALSE
    /\ success = <<>>
    /\ failed = <<>>
    /\ req = [t \in Threads |-> NoReq]
    /\ snap = [t \in Threads |-> NoReq]

\* The Metrics and Logs handlers have answered no request.
InitHandlers ==
    /\ glArg = "-"
    /\ obsErr = "none"
    /\ obsCode = 0

\* No child has written a line and nobody reads the logs.
InitLogVars ==
    /\ Logs = [p \in Pids |-> <<>>]
    /\ lineCount = [p \in Pids |-> 0]
    /\ pipe = [p \in Pids |-> <<>>]
    /\ exitLine = [p \in Pids |-> FALSE]
    /\ glPc = "idle"
    /\ glProc = None
    /\ logsOut = <<>>
    /\ glErr = "none"
    /\ InitHandlers

\* `info := &domain.SystemInfo{}`
ZeroInfo ==
    [CPUCores |-> 0, CPUThreads |-> 0, CPUUsage |-> 0, MemoryTotal |-> 0, MemoryUsed |-> 0,
     MemoryAvailable |-> 0, MemoryPercent |-> 0, LoadAverage1 |-> 0, LoadAverage5 |-> 0,
     LoadAverage15 |-> 0, Uptime |-> 0, GPUs |-> <<>>]

\* a zero memoryInfo
ZeroMem == [Total |-> 0, Used |-> 0, Available |-> 0, Percent |-> 0]

\* no probe has run
NoProbes ==
    [ran |-> FALSE,
     cpu |-> [err |-> FALSE, val |-> 0],
     mem |-> [err |-> FALSE, val |-> ZeroMem],
     load |-> [err |-> FALSE, val |-> <<>>],
     uptime |-> [err |-> FALSE, val |-> 0],
     gpu |-> [err |-> FALSE, val |-> <<>>]]

\* The system package after init(): nothing cached, nothing returned.
InitSystem ==
    /\ sysCache = "empty"
    /\ sysData = ZeroInfo
    /\ sysInfo = ZeroInfo
    /\ sysErr = "none"
    /\ sysProbes = NoProbes
    /\ gsiPc = [g \in Goroutines |-> "idle"]
    /\ probeRuns = 0

\* The table `channels` is empty and no repository method has been called.
InitRepo ==
    /\ chanTable = <<>>
    /\ repoOp = "none"
    /\ repoId = "-"
    /\ repoArg = <<>>
    /\ repoRet = <<>>
    /\ repoErr = "none"

\* m.mu is free; main has wired the status callback to
\* ChannelRepository.UpdateStatus.
InitLock ==
    /\ mu = "free"
    /\ spawning = "-"
    /\ rdPc = "idle"
    /\ statusCallback = "UpdateStatus"
    /\ cbArg = "-"

InitPool ==
    /\ poolPc = "idle"
    /\ concurrentLimit = 0
    /\ poolIds = 0
    /\ poolSent = 0
    /\ poolJobs = [buf |-> <<>>, closed |-> FALSE, cap |-> 0]
    /\ poolResults = {}
    /\ poolIdle = 0
    /\ poolRunning = {}
    /\ poolExited = 0
    /\ poolGot = <<>>

InitMutex ==
    /\ gOp = [g \in Goroutines |-> "idle"]
    /\ gPc = [g \in Goroutines |-> 1]
    /\ writer = [l \in Mutexes |-> "-"]
    /\ readers = [l \in Mutexes |-> {}]
    /\ pending = [l \in Mutexes |-> {}]

InitLimit ==
    /\ entries = [c \in ManyChannels |-> "none"]
    /\ startErr = "none"

\* The `system` document the migration inserts.
InitDoc ==
    /\ systemDoc = MigratedSystem
    /\ docErr = "none"

InitMore ==
    /\ deletedRows = {}
    /\ InitDoc
    /\ InitLimit
    /\ InitLock
    /\ InitPool
    /\ InitMutex
    /\ InitLogVars
    /\ monitor = [p \in Pids |-> "none"]
    /\ InitSystem
    /\ InitRepo

\* ProcessManager and ChannelService after construction, nothing in progress.
InitManager ==
    /\ InitTable
    /\ InitCallers
    /\ InitMore
    /\ autoRestart \in [Channels -> BOOLEAN]

\* The stored rows of the channels and the settings document.
InitStore ==
    /\ status = [c \in Channels |-> ChannelStatusStopped]
    /\ row = [c \in Channels |-> "a"]
    /\ settings = DefaultMaxChannels

\* No HTTP request has been received.
InitHttp ==
    /\ hPhase = "idle"
    /\ hRoute = "-"
    /\ hHeader = <<>>
    /\ hRole = "-"
    /\ hBody = NoBody
    /\ hCode = 0
    /\ hRan = FALSE
    /\ requests = 0
    /\ created = <<>>

\* The startup tasks of main are over; the HLS root is empty.
InitServing ==
    /\ boot = "serving"
    /\ hls = [e \in HlsEntries |-> NoEntry]
    /\ stoppedCount = 0

Init == InitManager /\ InitStore /\ InitHttp /\ InitServing

\* ------------------------------------------------- ProcessManager (process.go)

IsRunningNever(c) == FALSE

\* ProcessManager.IsRunning
IsRunning(c) == processes[c] # None

StartExistsNever(c) == FALSE

\* ProcessManager.Start: `if _, exists := m.processes[channel.ID]; exists`
StartExists(c) == processes[c] # None

\* ProcessManager.Start, successful spawn: the directory is created, the child
\* is started in its own process group, the Process is recorded and the
\* watcher goroutine is launched, all under m.mu.  wb is the watcher table as
\* the calling goroutine leaves it (the caller may itself be a watcher).
StartSpawn(c, wb) ==
    /\ nextPid <= MaxSpawns
    /\ dir' = [dir EXCEPT ![c] = TRUE]
    /\ processes' = [processes EXCEPT ![c] = nextPid]
    /\ child' = [child EXCEPT ![nextPid] = "running"]
    /\ chanOf' = [chanOf EXCEPT ![nextPid] = c]
    /\ w' = [wb EXCEPT ![nextPid] = "wait"]
    /\ nextPid' = nextPid + 1

\* ProcessManager.Start, failure at spawn: nothing is recorded; the directory
\* has been created unless MkdirAll itself failed.
StartFail(c, r, wb) ==
    /\ dir' = [dir EXCEPT ![c] = dir[c] \/ r # "mkdir"]
    /\ w' = wb
    /\ UNCHANGED tableVars

\* ProcessManager.Start, entry present: "channel is already running".
StartAlready(c, wb) ==
    /\ w' = wb
    /\ UNCHANGED <<tableVars, dir>>

\* ProcessManager.Start(channel) with outcome r: "already", "ok" or a spawn failure.
Start(c, r, wb) ==
    IF StartExists(c)
    THEN r = "already" /\ StartAlready(c, wb)
    ELSE \/ r = "ok" /\ StartSpawn(c, wb)
         \/ r \in SpawnFailures /\ StartFail(c, r, wb)

StartOutcomes == {"already", "ok"} \cup SpawnFailures

\* ProcessManager.Start, `m.mu.Lock(); defer m.mu.Unlock()` and the exists
\* check: "already running" returns (and unlocks) at once; otherwise the lock
\* stays held while the function goes on to MkdirAll, buildArgs (nvidia-smi,
\* GetSystemSettings), isNumactlAvailable and cmd.Start.
StartEnter(c) ==
    /\ mu = "free"
    /\ IF StartExists(c)
       THEN /\ Start(c, "already", w)
            /\ UNCHANGED <<mu, spawning>>
       ELSE /\ nextPid <= MaxSpawns
            /\ mu' = "Start"
            /\ spawning' = c
            /\ UNCHANGED <<tableVars, w, dir>>
    /\ UNCHANGED <<wend, status, autoRestart, apiVars, httpVars, bootVars, logVars, sysVars,
                   repoVars, poolVars, mutexVars, deletedRows, limitVars, docVars, rdPc, cbVars, pc, threadVars, batchVars, resultVars, calls, histVars>>

\* ProcessManager.Start, the rest of the function: the directory, the
\* arguments and the spawn with any outcome, the map insert, and the deferred
\* m.mu.Unlock() on return.
StartFinish ==
    /\ mu = "Start"
    /\ \E r \in {"ok"} \cup SpawnFailures : Start(spawning, r, w)
    /\ mu' = "free"
    /\ spawning' = "-"
    /\ UNCHANGED <<wend, status, autoRestart, apiVars, httpVars, bootVars, logVars, sysVars,
                   repoVars, poolVars, mutexVars, deletedRows, limitVars, docVars, rdPc, cbVars, pc, threadVars, batchVars, resultVars, calls, histVars>>

\* callbacks a caller may pass to SetStatusCallback
StatusCallbacks == {"nil", "UpdateStatus"}

\* SetStatusCallback(callback): m.mu.Lock() with the deferred Unlock.
SetStatusCallbackLock(cb) ==
    /\ mu = "free"
    /\ mu' = "SetStatusCallback"
    /\ cbArg' = cb
    /\ UNCHANGED <<coreVars, poolVars, mutexVars, logVars, sysVars, repoVars, spawning, rdPc, statusCallback>>

\* SetStatusCallback: `m.statusCallback = callback`, return.
SetStatusCallbackStore ==
    /\ mu = "SetStatusCallback"
    /\ statusCallback' = cbArg
    /\ cbArg' = "-"
    /\ mu' = "free"
    /\ UNCHANGED <<coreVars, poolVars, mutexVars, logVars, sysVars, repoVars, spawning, rdPc>>

\* A goroutine calls ProcessManager.IsRunning: m.mu.RLock().
IsRunningCall ==
    /\ rdPc = "idle"
    /\ rdPc' = "rlock"
    /\ UNCHANGED <<coreVars, poolVars, mutexVars, logVars, sysVars, repoVars, mu, spawning, cbVars>>

\* IsRunning gets the read lock once no writer holds m.mu, and returns.
IsRunningReturn ==
    /\ rdPc = "rlock"
    /\ mu = "free"
    /\ rdPc' = "idle"
    /\ UNCHANGED <<coreVars, poolVars, mutexVars, logVars, sysVars, repoVars, mu, spawning, cbVars>>

\* The steps of Stop and of a watcher that take m.mu wait until it is free.
LockFree == mu = "free"

\* ---------------------------------------------- ChannelService (facade)

Successes == {"sync_running", "started", "sync_stopped", "stopped"}

\* A facade call returns r to its caller; a batchProcess worker sends the job's
\* result to the collector, which files it under Success or Failed.
Return(t, r) ==
    /\ pc' = [pc EXCEPT ![t] = "idle"]
    /\ op' = [op EXCEPT ![t] = "none"]
    /\ arg' = [arg EXCEPT ![t] = "-"]
    /\ ret' = [ret EXCEPT ![t] = "none"]
    /\ worker' = [worker EXCEPT ![t] = FALSE]
    /\ stopProc' = [stopProc EXCEPT ![t] = None]
    /\ stopSaw' = [stopSaw EXCEPT ![t] = {}]
    /\ lastRet' = r
    /\ IF worker[t]
       THEN IF r \in Successes
            THEN /\ nSucc' = nSucc + 1
                 /\ success' = Append(success, arg[t])
                 /\ UNCHANGED <<nFail, failed>>
            ELSE /\ nFail' = nFail + 1
                 /\ failed' = Append(failed, arg[t])
                 /\ UNCHANGED <<nSucc, success>>
       ELSE UNCHANGED resultVars

FirstStep(o) == CASE o = "start" -> "sc_check"
                  [] o = "stop" -> "st_check"
                  [] o = "restart" -> "rc_check"
                  [] o = "update" -> "uc_check"
                  [] o = "settings" -> "su_hcheck"
                  [] o = "pmrestart" -> "pr_check"
                  [] o = "pmstop" -> "stop_lock"
                  [] o = "delete" -> "dc_check"

\* repo.GetByID(id) finds the row of the channel.
RowExists(c) == c \in Channels \ deletedRows

\* A caller (HTTP handler goroutine) enters StartChannel, StopChannel or RestartChannel.
Call(t, o, c) ==
    /\ pc[t] = "idle"
    /\ calls < MaxCalls
    /\ calls' = calls + 1
    /\ pc' = [pc EXCEPT ![t] = FirstStep(o)]
    /\ op' = [op EXCEPT ![t] = o]
    /\ arg' = [arg EXCEPT ![t] = c]
    /\ touched' = [touched EXCEPT ![c] = TRUE]
    /\ batchClean' = FALSE
    /\ UNCHANGED <<tableVars, w, wend, dir, status, envVars, ret, worker, stopProc,
                   stopSaw, lastRet, batchVars, resultVars, stopInPause, byStop, sent>>

\* StartChannel: GetByID (ErrChannelNotFound for an unknown id) and the
\* IsRunning check.
ScCheck(t) ==
    /\ pc[t] = "sc_check"
    /\ IF RowExists(arg[t])
       THEN /\ pc' = [pc EXCEPT ![t] = IF IsRunning(arg[t]) THEN "sc_sync" ELSE "sc_starting"]
            /\ UNCHANGED <<threadVars, resultVars>>
       ELSE Return(t, "not_found")
    /\ UNCHANGED <<tableVars, w, wend, dir, status, envVars, batchVars, calls, histVars>>

\* StartChannel, already running: UpdateStatus(running); return nil.
ScSync(t) ==
    /\ pc[t] = "sc_sync"
    /\ status' = [status EXCEPT ![arg[t]] = ChannelStatusRunning]
    /\ Return(t, "sync_running")
    /\ UNCHANGED <<tableVars, w, wend, dir, envVars, batchVars, calls, histVars>>

\* StartChannel: UpdateStatus(starting).
ScStarting(t) ==
    /\ pc[t] = "sc_starting"
    /\ status' = [status EXCEPT ![arg[t]] = ChannelStatusStarting]
    /\ pc' = [pc EXCEPT ![t] = "sc_start"]
    /\ UNCHANGED <<tableVars, w, wend, dir, envVars, threadVars, batchVars,
                   resultVars, calls, histVars>>

StartResult(r) == CASE r = "ok" -> "started"
                    [] r = "already" -> "already"
                    [] OTHER -> "failed"

\* StartChannel: s.transcoder.Start(channel).
ScStart(t) ==
    /\ pc[t] = "sc_start"
    /\ \E r \in StartOutcomes :
          /\ Start(arg[t], r, w)
          /\ pc' = [pc EXCEPT ![t] = IF r = "ok" THEN "sc_ok" ELSE "sc_err"]
          /\ ret' = [ret EXCEPT ![t] = StartResult(r)]
          /\ touched' = IF r = "ok" THEN [touched EXCEPT ![arg[t]] = ~OthersIdle(t)]
                        ELSE touched
          /\ batchClean' = (batchClean /\ r \notin SpawnFailures)
    /\ UNCHANGED <<wend, status, envVars, op, arg, worker, stopProc, stopSaw, lastRet,
                   batchVars, resultVars, calls, stopInPause, byStop, sent>>

StartErrorStatusStopped == ChannelStatusStopped

\* StartChannel: status written when transcoder.Start returned an error.
StartErrorStatus == ChannelStatusError

\* StartChannel: UpdateStatus(error); return err.
ScErr(t) ==
    /\ pc[t] = "sc_err"
    /\ status' = [status EXCEPT ![arg[t]] = StartErrorStatus]
    /\ Return(t, ret[t])
    /\ UNCHANGED <<tableVars, w, wend, dir, envVars, batchVars, calls, histVars>>

\* StartChannel: return UpdateStatus(running).
ScOk(t) ==
    /\ pc[t] = "sc_ok"
    /\ status' = [status EXCEPT ![arg[t]] = ChannelStatusRunning]
    /\ Return(t, "started")
    /\ UNCHANGED <<tableVars, w, wend, dir, envVars, batchVars, calls, histVars>>

\* History: a stop of channel c begins while a watcher of c is in its 2 s pause.
NoteStop(c) ==
    stopInPause' = [p \in Pids |->
                      stopInPause[p] \/ (chanOf[p] = c /\ w[p] = "sleep")]

\* StopChannel returns r; inside RestartChannel control continues (after the
\* 500 ms sleep) with StartChannel.
ReturnFromStop(t, r) ==
    IF op[t] = "restart"
    THEN /\ pc' = [pc EXCEPT ![t] = "sc_check"]
         /\ stopProc' = [stopProc EXCEPT ![t] = None]
         /\ stopSaw' = [stopSaw EXCEPT ![t] = {}]
         /\ UNCHANGED <<op, arg, ret, worker, lastRet, resultVars>>
    ELSE Return(t, r)

\* StopChannel: GetByID (ErrChannelNotFound for an unknown id) and the
\* IsRunning check.
StCheck(t) ==
    /\ pc[t] = "st_check"
    /\ IF RowExists(arg[t])
       THEN /\ pc' = [pc EXCEPT ![t] = IF IsRunning(arg[t]) THEN "st_stopping" ELSE "st_sync"]
            /\ UNCHANGED <<threadVars, resultVars>>
       ELSE Return(t, "not_found")
    /\ NoteStop(arg[t])
    /\ UNCHANGED <<tableVars, w, wend, dir, status, envVars, batchVars, calls, byStop, sent,
                   touched, batchClean>>

\* StopChannel: status written when the channel is not running.
StopIdleStatus == ChannelStatusStopped

\* StopChannel, not running: UpdateStatus(stopped); return nil.
StSync(t) ==
    /\ pc[t] = "st_sync"
    /\ status' = [status EXCEPT ![arg[t]] = StopIdleStatus]
    /\ ReturnFromStop(t, "sync_stopped")
    /\ UNCHANGED <<tableVars, w, wend, dir, envVars, batchVars, calls, histVars>>

\* StopChannel: UpdateStatus(stopping).
StStopping(t) ==
    /\ pc[t] = "st_stopping"
    /\ status' = [status EXCEPT ![arg[t]] = ChannelStatusStopping]
    /\ pc' = [pc EXCEPT ![t] = "stop_lock"]
    /\ UNCHANGED <<tableVars, w, wend, dir, envVars, threadVars, batchVars,
                   resultVars, calls, histVars>>

\* ProcessManager.Stop, section under m.mu: look the Process up and remove it.
StopLock(t) ==
    /\ pc[t] = "stop_lock"
    /\ stopSaw' = [stopSaw EXCEPT ![t] =
                     {p \in Pids : chanOf[p] = arg[t] /\ child[p] = "running"}]
    /\ NoteStop(arg[t])
    /\ IF processes[arg[t]] = None
       THEN /\ pc' = [pc EXCEPT ![t] = "stop_absent"]
            /\ UNCHANGED <<processes, stopProc, byStop>>
       ELSE /\ stopProc' = [stopProc EXCEPT ![t] = processes[arg[t]]]
            /\ byStop' = byStop \cup {processes[arg[t]]}
            /\ processes' = [processes EXCEPT ![arg[t]] = None]
            /\ pc' = [pc EXCEPT ![t] = "stop_signal"]
    /\ UNCHANGED <<child, chanOf, nextPid, w, wend, dir, status, envVars, op, arg, ret,
                   worker, lastRet, batchVars, resultVars, calls, sent, touched, batchClean>>

\* Where ProcessManager.Stop returns to: StopChannel, ProcessManager.Restart
\* (which sleeps 1 s and calls Start), or the caller of a direct Stop.
AfterStop(t) ==
    IF op[t] = "pmrestart" THEN "pr_start"
    ELSE IF op[t] = "pmstop" THEN "ps_ret"
    ELSE IF op[t] = "delete" THEN "dc_delete"
    ELSE "st_fin"

\* ProcessManager.Stop, process not in map: RemoveAll(outputDir); return nil.
StopAbsent(t) ==
    /\ pc[t] = "stop_absent"
    /\ dir' = [dir EXCEPT ![arg[t]] = FALSE]
    /\ pc' = [pc EXCEPT ![t] = AfterStop(t)]
    /\ UNCHANGED <<tableVars, w, wend, status, envVars, threadVars, batchVars,
                   resultVars, calls, histVars>>

\* A fatal signal is delivered to a child; it exits in a later step.
Signalled(p) == [child EXCEPT ![p] = IF @ = "running" THEN "killed" ELSE @]

\* process.Cancel(): the context of exec.CommandContext is done, on which
\* os/exec kills the process (os.Process.Kill)
Cancel == <<[sig |-> "SIGKILL", by |-> "Cancel"]>>

\* ProcessManager.Stop steps 1 and 2: process.Cancel(), then SIGTERM to the
\* process group, or to the process when Getpgid fails (the history does not
\* tell the two targets apart).
StopSignal(t) ==
    /\ pc[t] = "stop_signal"
    /\ child' = Signalled(stopProc[t])
    /\ sent' = [sent EXCEPT ![stopProc[t]] =
                  @ \o Cancel \o <<[sig |-> "SIGTERM", by |-> "Stop"]>>]
    /\ pc' = [pc EXCEPT ![t] = "stop_wait"]
    /\ UNCHANGED <<processes, chanOf, nextPid, w, wend, dir, status, envVars, threadVars,
                   batchVars, resultVars, calls, stopInPause, byStop, touched, batchClean>>

\* ProcessManager.Stop step 3: select on Cmd.Wait() and the 3 s timer.
StopWait(t) ==
    /\ pc[t] = "stop_wait"
    /\ pc' = [pc EXCEPT ![t] = IF child[stopProc[t]] = "exited" THEN "stop_rm" ELSE "stop_kill"]
    /\ UNCHANGED <<tableVars, w, wend, dir, status, envVars, threadVars, batchVars,
                   resultVars, calls, histVars>>

\* ProcessManager.Stop, timeout branch: SIGKILL to the process group, then
\* select on Cmd.Wait() and the 2 s timer; both branches fall through.
StopKill(t) ==
    /\ pc[t] = "stop_kill"
    /\ child' = Signalled(stopProc[t])
    /\ sent' = [sent EXCEPT ![stopProc[t]] = Append(@, [sig |-> "SIGKILL", by |-> "Stop"])]
    /\ pc' = [pc EXCEPT ![t] = "stop_rm"]
    /\ UNCHANGED <<processes, chanOf, nextPid, w, wend, dir, status, envVars, threadVars,
                   batchVars, resultVars, calls, stopInPause, byStop, touched, batchClean>>

\* ProcessManager.Stop step 5: RemoveAll(outputDir); return nil.
StopRm(t) ==
    /\ pc[t] = "stop_rm"
    /\ dir' = [dir EXCEPT ![arg[t]] = FALSE]
    /\ pc' = [pc EXCEPT ![t] = AfterStop(t)]
    /\ UNCHANGED <<tableVars, w, wend, status, envVars, threadVars, batchVars,
                   resultVars, calls, histVars>>

\* StopChannel: return UpdateStatus(stopped).
StFin(t) ==
    /\ pc[t] = "st_fin"
    /\ status' = [status EXCEPT ![arg[t]] = ChannelStatusStopped]
    /\ ReturnFromStop(t, "stopped")
    /\ UNCHANGED <<tableVars, w, wend, dir, envVars, batchVars, calls, histVars>>

\* RestartChannel: GetByID (ErrChannelNotFound for an unknown id);
\* wasRunning := IsRunning(id); StopChannel only if it was.
RcCheck(t) ==
    /\ pc[t] = "rc_check"
    /\ IF RowExists(arg[t])
       THEN /\ pc' = [pc EXCEPT ![t] = IF IsRunning(arg[t]) THEN "st_check" ELSE "sc_check"]
            /\ UNCHANGED <<threadVars, resultVars>>
       ELSE Return(t, "not_found")
    /\ UNCHANGED <<tableVars, w, wend, dir, status, envVars, batchVars, calls, histVars>>

\* DeleteChannel: GetByID (ErrChannelNotFound for an unknown id); when
\* IsRunning(id), transcoder.Stop(id) is called and its result ignored.
DcCheck(t) ==
    /\ pc[t] = "dc_check"
    /\ IF RowExists(arg[t])
       THEN /\ pc' = [pc EXCEPT ![t] = IF IsRunning(arg[t]) THEN "stop_lock" ELSE "dc_delete"]
            /\ UNCHANGED <<threadVars, resultVars>>
       ELSE Return(t, "not_found")
    /\ UNCHANGED <<tableVars, w, wend, dir, status, envVars, batchVars, calls, histVars>>

\* DeleteChannel, after the 200 ms sleep that follows a Stop:
\* `return s.repo.Delete(id)`, a DELETE that succeeds with or without a row.
DcDelete(t) ==
    /\ pc[t] = "dc_delete"
    /\ deletedRows' = deletedRows \cup {arg[t]}
    /\ Return(t, "deleted")
    /\ UNCHANGED <<tableVars, w, wend, dir, status, autoRestart, apiVars, httpVars, bootVars,
                   logVars, sysVars, repoVars, lockVars, poolVars, mutexVars, limitVars, docVars,
                   batchVars, calls, histVars>>

\* ----------------------------- UpdateChannel, settings, ProcessManager.Restart

\* A caller enters an operation that carries a request payload.
ApiCall(t, o, c, payload) ==
    /\ pc[t] = "idle"
    /\ calls < MaxCalls
    /\ calls' = calls + 1
    /\ pc' = [pc EXCEPT ![t] = FirstStep(o)]
    /\ op' = [op EXCEPT ![t] = o]
    /\ arg' = [arg EXCEPT ![t] = c]
    /\ req' = [req EXCEPT ![t] = payload]
    /\ touched' = [d \in Channels |-> touched[d] \/ d = c]
    /\ batchClean' = FALSE
    /\ UNCHANGED <<tableVars, w, wend, dir, status, autoRestart, moreVars, row, settings, snap,
                   httpVars, bootVars, ret, worker, stopProc, stopSaw, lastRet, batchVars,
                   resultVars, stopInPause, byStop, sent>>

\* The operation returns r and drops its request.
ReturnApi(t, r) ==
    /\ Return(t, r)
    /\ req' = [req EXCEPT ![t] = NoReq]
    /\ snap' = [snap EXCEPT ![t] = NoReq]

\* UpdateChannel: GetByID, then the IsRunning check; ErrChannelRunning is
\* answered 409 by ChannelHandler.Update.
UcCheck(t) ==
    /\ pc[t] = "uc_check"
    /\ IF IsRunning(arg[t])
       THEN ReturnApi(t, "update_409")
       ELSE /\ pc' = [pc EXCEPT ![t] = "uc_update"]
            /\ snap' = [snap EXCEPT ![t] = [name |-> row[arg[t]], max |-> NilInt]]
            /\ UNCHANGED <<threadVars, resultVars, req>>
    /\ UNCHANGED <<tableVars, w, wend, dir, status, autoRestart, moreVars, row, settings, httpVars,
                   bootVars, batchVars, calls, histVars>>

\* UpdateChannel: the name is replaced if the request gives one; repo.Update
\* writes the row read by GetByID.
UcUpdate(t) ==
    /\ pc[t] = "uc_update"
    /\ row' = [row EXCEPT ![arg[t]] = IF req[t].name # "" THEN req[t].name ELSE snap[t].name]
    /\ ReturnApi(t, "update_200")
    /\ UNCHANGED <<tableVars, w, wend, dir, status, autoRestart, moreVars, settings, httpVars,
                   bootVars, batchVars, calls, histVars>>

\* SettingsService.CheckRunningChannels: ListChannels, then
\* `channel.Status == "running"` for some channel.
CheckRunningChannels == \E c \in Channels : status[c] = ChannelStatusRunning

\* SettingsHandler.Update: the handler's CheckRunningChannels; an error is
\* answered 409.
SuHandlerCheck(t) ==
    /\ pc[t] = "su_hcheck"
    /\ IF CheckRunningChannels
       THEN ReturnApi(t, "settings_409")
       ELSE /\ pc' = [pc EXCEPT ![t] = "su_scheck"]
            /\ UNCHANGED <<threadVars, resultVars, req, snap>>
    /\ UNCHANGED <<tableVars, w, wend, dir, status, autoRestart, moreVars, row, settings, httpVars,
                   bootVars, batchVars, calls, histVars>>

\* SettingsService.UpdateSettings: its own CheckRunningChannels; every error
\* of UpdateSettings is answered 500 by the handler.
SuServiceCheck(t) ==
    /\ pc[t] = "su_scheck"
    /\ IF CheckRunningChannels
       THEN ReturnApi(t, "settings_500")
       ELSE /\ pc' = [pc EXCEPT ![t] = "su_get"]
            /\ UNCHANGED <<threadVars, resultVars, req, snap>>
    /\ UNCHANGED <<tableVars, w, wend, dir, status, autoRestart, moreVars, row, settings, httpVars,
                   bootVars, batchVars, calls, histVars>>

\* UpdateSettings: `*maxChannels < 1 || *maxChannels > 1000`
MaxChannelsInvalid(v) == v < 1 \/ v > 1000

\* UpdateSettings: GetSettings, then the provided field is validated and set
\* in the document read.
SuGet(t) ==
    /\ pc[t] = "su_get"
    /\ IF req[t].max # NilInt /\ MaxChannelsInvalid(req[t].max)
       THEN ReturnApi(t, "settings_500")
       ELSE /\ pc' = [pc EXCEPT ![t] = "su_save"]
            /\ snap' = [snap EXCEPT ![t] =
                          [name |-> "", max |-> IF req[t].max # NilInt THEN req[t].max
                                                ELSE settings]]
            /\ UNCHANGED <<threadVars, resultVars, req>>
    /\ UNCHANGED <<tableVars, w, wend, dir, status, autoRestart, moreVars, row, settings, httpVars,
                   bootVars, batchVars, calls, histVars>>

\* UpdateSettings: repo.UpdateSystemSettings(dbSettings); answered 200.
SuSave(t) ==
    /\ pc[t] = "su_save"
    /\ settings' = snap[t].max
    /\ ReturnApi(t, "settings_200")
    /\ UNCHANGED <<tableVars, w, wend, dir, status, autoRestart, moreVars, row, httpVars, bootVars,
                   batchVars, calls, histVars>>

\* ProcessManager.Restart: the entry is looked up under m.mu (RLock); without
\* one the call returns "channel ... is not running", with one it calls Stop.
PrCheck(t) ==
    /\ pc[t] = "pr_check"
    /\ IF processes[arg[t]] = None
       THEN ReturnApi(t, "not_running")
       ELSE /\ pc' = [pc EXCEPT ![t] = "stop_lock"]
            /\ UNCHANGED <<threadVars, resultVars, req, snap>>
    /\ UNCHANGED <<tableVars, w, wend, dir, status, autoRestart, moreVars, row, settings, httpVars,
                   bootVars, batchVars, calls, histVars>>

\* ProcessManager.Restart after Stop and time.Sleep(1 s): return m.Start(channel).
PrStart(t) ==
    /\ pc[t] = "pr_start"
    /\ \E r \in StartOutcomes :
          /\ Start(arg[t], r, w)
          /\ ReturnApi(t, StartResult(r))
    /\ touched' = [touched EXCEPT ![arg[t]] = TRUE]
    /\ batchClean' = FALSE
    /\ UNCHANGED <<wend, status, autoRestart, moreVars, row, settings, httpVars, bootVars, batchVars,
                   calls, stopInPause, byStop, sent>>

\* ProcessManager.Stop called directly returns nil.
PsReturn(t) ==
    /\ pc[t] = "ps_ret"
    /\ ReturnApi(t, "stopped")
    /\ UNCHANGED <<tableVars, w, wend, dir, status, autoRestart, moreVars, row, settings,
                   httpVars, bootVars, batchVars, calls, histVars>>

\* ------------------------------------------------------ child and watcher

\* The encoder child exits, on its own or after a fatal signal.
ChildExit(p) ==
    /\ child[p] \in {"running", "killed"}
    /\ child' = [child EXCEPT ![p] = "exited"]
    /\ batchClean' = FALSE
    /\ UNCHANGED <<processes, chanOf, nextPid, w, wend, dir, status, envVars, pc,
                   threadVars, batchVars, resultVars, calls, stopInPause, byStop, sent, touched>>

\* watchProcess: `_, stillInMap := m.processes[process.ChannelID]`
StillInMap(p) == processes[chanOf[p]] # None

\* watchProcess: branch taken after the section under m.mu; long tells whether
\* uptime >= minUptimeForRestart (10 s).
WatchBranch(p, long) ==
    IF ~StillInMap(p) THEN "manual_rm"
    ELSE IF ~long THEN "early_rm"
    ELSE IF autoRestart[chanOf[p]] THEN "sleep"
    ELSE "noauto_rm"

\* watchProcess after Cmd.Wait() returned: uptime is measured, then under m.mu
\* the entry of the channel is deleted if there is one.
WatchLock(p) ==
    /\ w[p] = "wait"
    /\ child[p] = "exited"
    /\ processes' = IF StillInMap(p) THEN [processes EXCEPT ![chanOf[p]] = None]
                    ELSE processes
    /\ \E long \in BOOLEAN : w' = [w EXCEPT ![p] = WatchBranch(p, long)]
    /\ UNCHANGED <<child, chanOf, nextPid, wend, dir, status, envVars, pc, threadVars,
                   batchVars, resultVars, calls, histVars>>

\* The watcher removes the output directory and returns on branch b.
WatchRmDone(p, from, b) ==
    /\ w[p] = from
    /\ dir' = [dir EXCEPT ![chanOf[p]] = FALSE]
    /\ w' = [w EXCEPT ![p] = "done"]
    /\ wend' = [wend EXCEPT ![p] = b]
    /\ UNCHANGED <<tableVars, status, envVars, pc, threadVars, batchVars, resultVars,
                   calls, histVars>>

\* The watcher removes the output directory and goes on to the status callback.
WatchRmThen(p, from, to) ==
    /\ w[p] = from
    /\ dir' = [dir EXCEPT ![chanOf[p]] = FALSE]
    /\ w' = [w EXCEPT ![p] = to]
    /\ UNCHANGED <<tableVars, wend, status, envVars, pc, threadVars, batchVars,
                   resultVars, calls, histVars>>

\* Values a read of m.statusCallback made without m.mu can return: the field,
\* or the value a SetStatusCallback that holds the lock is storing.
SeenCallbacks ==
    IF mu = "SetStatusCallback" THEN {statusCallback, cbArg} ELSE {statusCallback}

\* The watcher reads m.statusCallback, without taking m.mu, invokes it unless
\* it is nil (main wires it to ChannelRepository.UpdateStatus) and returns on
\* branch b.
WatchCallback(p, from, st, b) ==
    /\ w[p] = from
    /\ \E cb \in SeenCallbacks :
          status' = IF cb = "nil" THEN status ELSE [status EXCEPT ![chanOf[p]] = st]
    /\ w' = [w EXCEPT ![p] = "done"]
    /\ wend' = [wend EXCEPT ![p] = b]
    /\ UNCHANGED <<tableVars, dir, envVars, pc, threadVars, batchVars, resultVars,
                   calls, histVars>>

\* watchProcess, stopped manually (entry not in map).
WatchManual(p) == WatchRmDone(p, "manual_rm", "manual")

\* watchProcess, uptime < minUptimeForRestart: RemoveAll, then callback(stopped).
WatchEarlyRm(p) == WatchRmThen(p, "early_rm", "early_cb")

WatchEarlyCallback(p) == WatchCallback(p, "early_cb", ChannelStatusStopped, "early")

\* watchProcess, auto-restart disabled: RemoveAll and return.
WatchNoRestart(p) == WatchRmDone(p, "noauto_rm", "noauto")

\* watchProcess after time.Sleep(2 s): `_, shouldRestart := m.processes[process.ChannelID]`
ShouldRestart(p) == processes[chanOf[p]] # None

WatchRecheck(p) ==
    /\ w[p] = "sleep"
    /\ w' = [w EXCEPT ![p] = IF ShouldRestart(p) THEN "restart" ELSE "skip_rm"]
    /\ UNCHANGED <<tableVars, wend, dir, status, envVars, pc, threadVars, batchVars,
                   resultVars, calls, histVars>>

\* watchProcess, stopped during the pause: RemoveAll and return.
WatchSkip(p) == WatchRmDone(p, "skip_rm", "skip")

\* watchProcess: restartErr := m.Start(process.Channel)
WatchRestart(p) ==
    /\ w[p] = "restart"
    /\ \E r \in StartOutcomes :
          /\ Start(chanOf[p], r, [w EXCEPT ![p] = IF r = "ok" THEN "done" ELSE "fail_rm"])
          /\ IF r = "ok"
             THEN /\ wend' = [wend EXCEPT ![p] = "restarted"]
                  /\ touched' = [touched EXCEPT ![chanOf[p]] = \E t \in Threads : pc[t] # "idle"]
             ELSE UNCHANGED <<wend, touched>>
          /\ batchClean' = (batchClean /\ r \notin SpawnFailures)
    /\ UNCHANGED <<status, envVars, pc, threadVars, batchVars, resultVars, calls,
                   stopInPause, byStop, sent>>

\* watchProcess, restart failed: RemoveAll, then callback(error).
WatchFailRm(p) == WatchRmThen(p, "fail_rm", "fail_cb")

WatchFailCallback(p) == WatchCallback(p, "fail_cb", ChannelStatusError, "restartfail")

\* ------------------------------------------------------------ batchProcess

\* The ids argument: any list, with duplicates and unknown ids, or empty.
IdLists == UNION {[1..n -> Channels \cup UnknownIds] : n \in 0..MaxBatchLen}

\* BatchStartChannels / BatchStopChannels call batchProcess(ids, processFunc, 5,
\* 100 ms): the jobs channel is filled and closed, the workers are started.
BatchBegin(o, ids) ==
    /\ batchPhase # "running"
    /\ batches < MaxBatches
    /\ batches' = batches + 1
    /\ batchPhase' = IF Len(ids) = 0 THEN "done" ELSE "running"
    /\ batchOp' = o
    /\ jobs' = ids
    /\ batchIds' = ids
    /\ nSucc' = 0
    /\ nFail' = 0
    /\ success' = <<>>
    /\ failed' = <<>>
    /\ batchClean' = \A c \in Channels : Quiescent(c)
    /\ UNCHANGED <<tableVars, w, wend, dir, status, envVars, pc, threadVars, calls,
                   stopInPause, byStop, sent, touched>>

BatchStartChannels == \E ids \in IdLists : BatchBegin("start", ids)

BatchStopChannels == \E ids \in IdLists : BatchBegin("stop", ids)

\* A worker goroutine of batchProcess receives the next id from jobs and calls
\* processFunc(id); at most concurrentLimit workers exist.
WorkerTake(t) ==
    /\ batchPhase = "running"
    /\ jobs # <<>>
    /\ pc[t] = "idle"
    /\ Cardinality({u \in Threads : worker[u]}) < ConcurrentLimit
    /\ jobs' = Tail(jobs)
    /\ worker' = [worker EXCEPT ![t] = TRUE]
    /\ op' = [op EXCEPT ![t] = batchOp]
    /\ arg' = [arg EXCEPT ![t] = Head(jobs)]
    /\ pc' = [pc EXCEPT ![t] = FirstStep(batchOp)]
    /\ touched' = [c \in Channels |-> touched[c] \/ c = Head(jobs)]
    /\ UNCHANGED <<tableVars, w, wend, dir, status, envVars, ret, stopProc, stopSaw,
                   lastRet, batchOp, batchPhase, batchIds, batches, resultVars, calls,
                   stopInPause, byStop, sent, batchClean>>

ResultsExpectedShort == Len(batchIds) - 1

\* batchProcess: number of results the collector receives, `i < len(ids)`.
ResultsExpected == Len(batchIds)

\* batchProcess: the collector has received len(ids) results and returns.
BatchCollect ==
    /\ batchPhase = "running"
    /\ nSucc + nFail = ResultsExpected
    /\ batchPhase' = "done"
    /\ UNCHANGED <<tableVars, w, wend, dir, status, envVars, pc, threadVars, jobs,
                   batchOp, batchIds, batches, resultVars, calls, histVars>>

\* ------------------------------------- batchProcess: the worker goroutines
\* The same function with its goroutines and channels spelled out: the ids of
\* a call are 1..len(ids), processFunc is any per-channel operation that
\* returns, and time.Sleep between collected results changes no state. What
\* the collector does with the error of a result is in BatchCollect above.

\* concurrentLimit BatchRestartChannels passes
RestartLimit == 3

\* worker goroutines `for i := 0; i < concurrentLimit; i++ { go func() ... }`
\* starts for a list of n ids
WorkersPerId(limit, n) == n

Workers(limit, n) == limit

\* make(chan T, n)
MakeChan(n) == [buf |-> <<>>, closed |-> FALSE, cap |-> n]

\* close(ch) of a channel, left out
NoClose(ch) == ch

\* close(ch)
Close(ch) == [ch EXCEPT !.closed = TRUE]

\* ch <- v can proceed: the buffer has room
CanSend(ch) == Len(ch.buf) < ch.cap

\* batchProcess entry: an empty list returns the empty result; otherwise both
\* channels are made with capacity len(ids) and the workers are started.
batchProcess(n, limit) ==
    /\ poolPc \in {"idle", "done"}
    /\ poolIdle = 0
    /\ poolRunning = {}
    /\ concurrentLimit' = limit
    /\ poolIds' = n
    /\ poolSent' = 0
    /\ poolGot' = [i \in 1..n |-> 0]
    /\ poolRunning' = {}
    /\ poolExited' = 0
    /\ poolJobs' = MakeChan(n)
    /\ poolResults' = {}
    /\ IF n = 0
       THEN /\ poolPc' = "done"
            /\ poolIdle' = 0
       ELSE /\ poolPc' = "send"
            /\ poolIdle' = Workers(limit, n)
    /\ UNCHANGED <<coreVars, mutexVars, logVars, sysVars, repoVars, lockVars>>

\* The four wrappers of ChannelService, each with the limit it passes.
PoolBatchStart(n) == batchProcess(n, ConcurrentLimit)

PoolBatchStop(n) == batchProcess(n, ConcurrentLimit)

BatchRestartChannels(n) == batchProcess(n, RestartLimit)

BatchDeleteChannels(n) == batchProcess(n, ConcurrentLimit)

\* `for _, id := range ids { jobs <- id }`
SendJob ==
    /\ poolPc = "send"
    /\ poolSent < poolIds
    /\ CanSend(poolJobs)
    /\ poolJobs' = [poolJobs EXCEPT !.buf = Append(@, poolSent + 1)]
    /\ poolSent' = poolSent + 1
    /\ UNCHANGED <<coreVars, mutexVars, logVars, sysVars, repoVars, lockVars, poolPc, concurrentLimit, poolIds,
                   poolResults, poolIdle, poolRunning, poolExited, poolGot>>

\* `close(jobs)` after the last id was sent
CloseJobs ==
    /\ poolPc = "send"
    /\ poolSent = poolIds
    /\ poolJobs' = Close(poolJobs)
    /\ poolPc' = "collect"
    /\ UNCHANGED <<coreVars, mutexVars, logVars, sysVars, repoVars, lockVars, concurrentLimit, poolIds, poolSent,
                   poolResults, poolIdle, poolRunning, poolExited, poolGot>>

\* A worker receives the next id from jobs and calls processFunc(id).
WorkerReceive ==
    /\ poolIdle > 0
    /\ poolJobs.buf # <<>>
    /\ poolRunning' = poolRunning \cup {Head(poolJobs.buf)}
    /\ poolJobs' = [poolJobs EXCEPT !.buf = Tail(@)]
    /\ poolIdle' = poolIdle - 1
    /\ UNCHANGED <<coreVars, mutexVars, logVars, sysVars, repoVars, lockVars, poolPc, concurrentLimit, poolIds,
                   poolSent, poolResults, poolExited, poolGot>>

\* capacity of `results := make(chan job, len(ids))`
ResultsCap == poolIds

\* processFunc(id) returns and the worker sends the job of that id on results
\* and goes back to `range jobs`. The workers send in any order, so results
\* is kept as the set of the jobs it buffers.
WorkerSend(id) ==
    /\ id \in poolRunning
    /\ Cardinality(poolResults) < ResultsCap
    /\ poolResults' = poolResults \cup {id}
    /\ poolRunning' = poolRunning \ {id}
    /\ poolIdle' = poolIdle + 1
    /\ UNCHANGED <<coreVars, mutexVars, logVars, sysVars, repoVars, lockVars, poolPc, concurrentLimit, poolIds,
                   poolSent, poolJobs, poolExited, poolGot>>

\* `for id := range jobs` ends: jobs is closed and empty, the goroutine exits.
WorkerExit ==
    /\ poolIdle > 0
    /\ poolJobs.buf = <<>>
    /\ poolJobs.closed
    /\ poolIdle' = poolIdle - 1
    /\ poolExited' = poolExited + 1
    /\ UNCHANGED <<coreVars, mutexVars, logVars, sysVars, repoVars, lockVars, poolPc, concurrentLimit, poolIds,
                   poolSent, poolJobs, poolResults, poolRunning, poolGot>>

\* results received so far, the collector's i
RECURSIVE Total(_)
Total(q) == IF q = <<>> THEN 0 ELSE Head(q) + Total(Tail(q))

Collected == Total(poolGot)

\* `job := <-results` of the collecting loop, appended to Failed or Success
Collect ==
    /\ poolPc = "collect"
    /\ Collected < poolIds
    /\ \E id \in poolResults :
          /\ poolGot' = [poolGot EXCEPT ![id] = @ + 1]
          /\ poolResults' = poolResults \ {id}
    /\ UNCHANGED <<coreVars, mutexVars, logVars, sysVars, repoVars, lockVars, poolPc, concurrentLimit, poolIds,
                   poolSent, poolJobs, poolIdle, poolRunning, poolExited>>

\* `return result, nil` after len(ids) results
BatchProcessReturn ==
    /\ poolPc = "collect"
    /\ Collected = poolIds
    /\ poolPc' = "done"
    /\ UNCHANGED <<coreVars, mutexVars, logVars, sysVars, repoVars, lockVars, concurrentLimit, poolIds, poolSent,
                   poolJobs, poolResults, poolIdle, poolRunning, poolExited, poolGot>>

\* steps of the goroutines of a call in progress
PoolStep ==
    \/ SendJob
    \/ CloseJobs
    \/ WorkerReceive
    \/ \E id \in 1..MaxPoolIds : WorkerSend(id)
    \/ WorkerExit
    \/ Collect
    \/ BatchProcessReturn

NextPool ==
    \/ \E n \in 0..MaxPoolIds : PoolBatchStart(n)
    \/ \E n \in 0..MaxPoolIds : PoolBatchStop(n)
    \/ \E n \in 0..MaxPoolIds : BatchRestartChannels(n)
    \/ \E n \in 0..MaxPoolIds : BatchDeleteChannels(n)
    \/ PoolStep

SpecPool == Init /\ [][NextPool]_vars

\* Every goroutine that can take a step is scheduled eventually, and every
\* per-channel operation returns.
SpecPoolFair == SpecPool /\ WF_vars(PoolStep)

\* ------------------------------------- the table over several channels
\* ProcessManager.processes for MaxLive channels, each m.mu section one step.

\* smallest max_channels UpdateSettings accepts
MinMaxChannels == 1

\* len(m.processes)
activeProcessCount == Cardinality({c \in ManyChannels : entries[c] # "none"})

\* ProcessManager.Start(channel): "already running" when the table has an
\* entry; otherwise the child is spawned and recorded, or the spawn fails.
\* The count of the entries only enters the thread calculation of buildArgs.
StartMany(c, r) ==
    /\ IF entries[c] # "none"
       THEN /\ r = "already"
            /\ UNCHANGED entries
       ELSE \/ /\ r = "ok"
               /\ entries' = [entries EXCEPT ![c] = "running"]
            \/ /\ r \in SpawnFailures
               /\ UNCHANGED entries
    /\ startErr' = r
    /\ UNCHANGED <<tableVars, w, wend, dir, status, autoRestart, apiVars, httpVars, bootVars, pc,
                   threadVars, batchVars, resultVars, calls, histVars, deletedRows, logVars,
                   sysVars, repoVars, lockVars, poolVars, mutexVars, docVars>>

\* what every step but Start leaves alone
LimitFrame ==
    UNCHANGED <<tableVars, w, wend, dir, status, autoRestart, apiVars, httpVars, bootVars, pc,
                threadVars, batchVars, resultVars, calls, histVars, deletedRows, logVars,
                sysVars, repoVars, lockVars, poolVars, mutexVars, docVars, startErr>>

\* ProcessManager.Stop: the entry is deleted.
StopMany(c) ==
    /\ entries[c] # "none"
    /\ entries' = [entries EXCEPT ![c] = "none"]
    /\ LimitFrame

\* The child of a recorded Process exits.
ChildExitMany(c) ==
    /\ entries[c] = "running"
    /\ entries' = [entries EXCEPT ![c] = "exited"]
    /\ LimitFrame

\* watchProcess: the entry of the exited child is deleted.
WatchMany(c) ==
    /\ entries[c] = "exited"
    /\ entries' = [entries EXCEPT ![c] = "none"]
    /\ LimitFrame

NextLimit ==
    \/ \E c \in ManyChannels, r \in StartOutcomes : StartMany(c, r)
    \/ \E c \in ManyChannels : StopMany(c)
    \/ \E c \in ManyChannels : ChildExitMany(c)
    \/ \E c \in ManyChannels : WatchMany(c)

\* The stored settings document carries the default max_channels or the
\* smallest value an administrator can set.
InitSettings ==
    /\ InitManager /\ InitHttp /\ InitServing
    /\ status = [c \in Channels |-> ChannelStatusStopped]
    /\ row = [c \in Channels |-> "a"]
    /\ settings \in {MinMaxChannels, DefaultMaxChannels}

SpecLimit == InitSettings /\ [][NextLimit]_vars

\* ------------------------------------------- the `system` settings document

Range(q) == {q[i] : i \in DOMAIN q}

\* GetSettings: the defaults, overwritten by every key the document holds
GetSettings(doc) ==
    [k \in Range(SettingsKeys) |-> IF k \in DOMAIN doc THEN doc[k] ELSE DefaultSettings[k]]

ValidPresets == {"ultrafast", "superfast", "veryfast", "faster", "fast", "medium", "slow",
                 "slower", "veryslow"}

ValidProfiles == {"baseline", "main", "high"}

\* UpdateSettings: the check of a provided field
ValidField(k, v) ==
    CASE k = "max_channels" -> v >= 1 /\ v <= 1000
      [] k = "segment_time" -> v >= 1 /\ v <= 30
      [] k = "playlist_size" -> v >= 1 /\ v <= 100
      [] k = "log_retention" -> v >= 1 /\ v <= 365
      [] k = "default_preset" -> v \in ValidPresets
      [] k = "default_profile" -> v \in ValidProfiles
      [] k = "default_crf" -> v >= 0 /\ v <= 51
      [] OTHER -> TRUE

\* values a request may carry for a field: an accepted one and, for a checked
\* field, a rejected one
FieldInputs(k) ==
    CASE k = "max_channels" -> {50, 0}
      [] k = "segment_time" -> {4, 31}
      [] k = "playlist_size" -> {10, 101}
      [] k = "log_retention" -> {7, 366}
      [] k = "default_preset" -> {"fast", "turbo"}
      [] k = "default_profile" -> {"main", "extra"}
      [] k = "default_crf" -> {20, 52}
      [] OTHER -> {"5000k"}

\* requests that provide at most MaxFields fields (a nil pointer is a field
\* outside the domain)
RECURSIVE RequestsOf(_)
RequestsOf(n) ==
    IF n = 0 THEN {[k \in {} |-> TRUE]}
    ELSE LET R == RequestsOf(n - 1) IN
           R \cup UNION {UNION {{rq @@ (k :> v) : v \in FieldInputs(k)} :
                                  k \in Range(SettingsKeys) \ DOMAIN rq} : rq \in R}

SettingsRequests == RequestsOf(MaxFields)

\* UpdateSettings, "Save to database": the map built from the struct
dbSettings(current) == [k \in Range(SettingsKeys) |-> current[k]]

\* SettingsService.UpdateSettings with the provided fields rq:
\* CheckRunningChannels, GetSettings, the checks of the provided fields, and
\* UpdateSystemSettings, which replaces the value of the row.
UpdateSettingsDoc(rq) ==
    /\ IF \E c \in Channels : status[c] = ChannelStatusRunning
       THEN /\ docErr' = "running"
            /\ UNCHANGED systemDoc
       ELSE IF \E k \in DOMAIN rq : ~ValidField(k, rq[k])
       THEN /\ docErr' = "invalid"
            /\ UNCHANGED systemDoc
       ELSE /\ docErr' = "nil"
            /\ systemDoc' = dbSettings([k \in Range(SettingsKeys) |->
                                          IF k \in DOMAIN rq THEN rq[k]
                                          ELSE GetSettings(systemDoc)[k]])
    /\ UNCHANGED <<tableVars, w, wend, dir, status, autoRestart, apiVars, httpVars, bootVars, pc,
                   threadVars, batchVars, resultVars, calls, histVars, deletedRows, logVars,
                   sysVars, repoVars, lockVars, poolVars, mutexVars, limitVars>>

NextDoc == \E rq \in SettingsRequests : UpdateSettingsDoc(rq)

\* The channels are stopped or running when the requests arrive.
InitDocs ==
    /\ InitManager /\ InitHttp /\ InitServing
    /\ status \in [Channels -> {ChannelStatusStopped, ChannelStatusRunning}]
    /\ row = [c \in Channels |-> "a"]
    /\ settings = DefaultMaxChannels

SpecDoc == InitDocs /\ [][NextDoc]_vars

\* --------------------------------------- lock order of the ProcessManager
\* Each function of the supervisor as the sequence of lock operations of its
\* longest path, on the locks of one ProcessManager and one Process: m.mu,
\* process.mu, process.logMu and m.numaMu. A sync.RWMutex lets no new reader
\* in while a writer waits in Lock().

StartLocks == <<[do |-> "Lock", mu |-> "m.mu"], [do |-> "Lock", mu |-> "m.numaMu"],
                [do |-> "Unlock", mu |-> "m.numaMu"], [do |-> "Unlock", mu |-> "m.mu"]>>

StopLocks == <<[do |-> "Lock", mu |-> "m.mu"], [do |-> "Unlock", mu |-> "m.mu"]>>

LookupLocks == <<[do |-> "RLock", mu |-> "m.mu"], [do |-> "RUnlock", mu |-> "m.mu"]>>

\* getProcessStats: `process.mu.Lock()` around the update of lastCPUStat
getProcessStats == <<[do |-> "Lock", mu |-> "process.mu"],
                     [do |-> "Unlock", mu |-> "process.mu"]>>

\* GetAllProcesses calling getProcessStats before it released process.mu
GetAllProcessesHolding ==
    <<[do |-> "RLock", mu |-> "m.mu"], [do |-> "RLock", mu |-> "process.mu"]>>
        \o getProcessStats
        \o <<[do |-> "RUnlock", mu |-> "process.mu"], [do |-> "RUnlock", mu |-> "m.mu"]>>

\* GetAllProcesses: m.mu is read-locked to the end (defer); for each Process
\* its fields are copied under process.mu.RLock, then getProcessStats runs.
GetAllProcesses ==
    <<[do |-> "RLock", mu |-> "m.mu"], [do |-> "RLock", mu |-> "process.mu"],
      [do |-> "RUnlock", mu |-> "process.mu"]>>
        \o getProcessStats
        \o <<[do |-> "RUnlock", mu |-> "m.mu"]>>

LockOps ==
    [Start |-> StartLocks,
     Stop |-> StopLocks,
     Restart |-> LookupLocks \o StopLocks \o StartLocks,
     IsRunning |-> LookupLocks,
     GetProcess |-> LookupLocks \o <<[do |-> "RLock", mu |-> "process.mu"],
                                     [do |-> "RUnlock", mu |-> "process.mu"]>>
                                \o getProcessStats,
     GetAllProcesses |-> GetAllProcesses,
     GetLogs |-> LookupLocks \o <<[do |-> "Lock", mu |-> "process.logMu"],
                                  [do |-> "Unlock", mu |-> "process.logMu"]>>,
     SetStatusCallback |-> StopLocks,
     monitorProgress |-> <<[do |-> "Lock", mu |-> "process.logMu"],
                           [do |-> "Unlock", mu |-> "process.logMu"],
                           [do |-> "Lock", mu |-> "process.mu"],
                           [do |-> "Unlock", mu |-> "process.mu"]>>,
     watchProcess |-> <<[do |-> "Lock", mu |-> "process.logMu"],
                        [do |-> "Unlock", mu |-> "process.logMu"]>>
                          \o StopLocks \o LookupLocks \o StartLocks]

\* the lock operation goroutine g is at, when it runs a function
At(g) == LockOps[gOp[g]][gPc[g]]

Running(g) == gOp[g] # "idle"

\* goroutines that hold lock l in any mode
Holders(l) == readers[l] \cup (IF writer[l] = "-" THEN {} ELSE {writer[l]})

\* A goroutine calls one of the functions.
Enter(g, f) ==
    /\ gOp[g] = "idle"
    /\ gOp' = [gOp EXCEPT ![g] = f]
    /\ gPc' = [gPc EXCEPT ![g] = 1]
    /\ UNCHANGED <<coreVars, logVars, sysVars, repoVars, lockVars, poolVars, writer, readers,
                   pending>>

\* the goroutine moves past the lock operation it is at
Advance(g) ==
    IF gPc[g] = Len(LockOps[gOp[g]])
    THEN /\ gOp' = [gOp EXCEPT ![g] = "idle"]
         /\ gPc' = [gPc EXCEPT ![g] = 1]
    ELSE /\ gPc' = [gPc EXCEPT ![g] = @ + 1]
         /\ UNCHANGED gOp

\* Lock() is called: the goroutine is announced as a waiting writer.
LockCall(g) ==
    /\ Running(g)
    /\ At(g).do = "Lock"
    /\ g \notin pending[At(g).mu]
    /\ pending' = [pending EXCEPT ![At(g).mu] = @ \cup {g}]
    /\ UNCHANGED <<coreVars, logVars, sysVars, repoVars, lockVars, poolVars, gOp, gPc, writer,
                   readers>>

\* Lock() returns once no goroutine holds the lock.
LockAcquire(g) ==
    /\ Running(g)
    /\ At(g).do = "Lock"
    /\ g \in pending[At(g).mu]
    /\ Holders(At(g).mu) = {}
    /\ writer' = [writer EXCEPT ![At(g).mu] = g]
    /\ pending' = [pending EXCEPT ![At(g).mu] = @ \ {g}]
    /\ Advance(g)
    /\ UNCHANGED <<coreVars, logVars, sysVars, repoVars, lockVars, poolVars, readers>>

\* RLock() returns once no writer holds the lock or waits for it.
RLockAcquire(g) ==
    /\ Running(g)
    /\ At(g).do = "RLock"
    /\ writer[At(g).mu] = "-"
    /\ pending[At(g).mu] = {}
    /\ readers' = [readers EXCEPT ![At(g).mu] = @ \cup {g}]
    /\ Advance(g)
    /\ UNCHANGED <<coreVars, logVars, sysVars, repoVars, lockVars, poolVars, writer, pending>>

\* Unlock() and RUnlock()
Release(g) ==
    /\ Running(g)
    /\ At(g).do \in {"Unlock", "RUnlock"}
    /\ IF At(g).do = "Unlock"
       THEN /\ writer' = [writer EXCEPT ![At(g).mu] = "-"]
            /\ UNCHANGED readers
       ELSE /\ readers' = [readers EXCEPT ![At(g).mu] = @ \ {g}]
            /\ UNCHANGED writer
    /\ Advance(g)
    /\ UNCHANGED <<coreVars, logVars, sysVars, repoVars, lockVars, poolVars, pending>>

NextMutex ==
    \/ \E g \in Goroutines, f \in DOMAIN LockOps : Enter(g, f)
    \/ \E g \in Goroutines : LockCall(g)
    \/ \E g \in Goroutines : LockAcquire(g)
    \/ \E g \in Goroutines : RLockAcquire(g)
    \/ \E g \in Goroutines : Release(g)

SpecMutex == Init /\ [][NextMutex]_vars

\* ------------------------------------------ HTTP routes and auth middleware

UserRoleAdmin == "admin"
UserRoleOperator == "operator"
UserRoleViewer == "viewer"
UserRoles == {UserRoleViewer, UserRoleOperator, UserRoleAdmin}

\* Routes registered on the protected group by Router.SetupRoutes.
ReadRoutes ==
    {"GET /auth/me", "GET /channels", "GET /channels/metrics", "GET /channels/:id",
     "GET /channels/:id/metrics", "GET /channels/:id/logs", "GET /system/info"}

OperatorRoutes ==
    {"POST /channels/batch/start", "POST /channels/batch/stop",
     "POST /channels/batch/restart", "POST /channels", "PUT /channels/:id",
     "POST /channels/:id/start", "POST /channels/:id/stop", "POST /channels/:id/restart",
     "POST /uploads/logo", "DELETE /uploads/logo/:filename"}

AdminRoutes ==
    {"POST /channels/batch/delete", "DELETE /channels/:id", "GET /settings", "PUT /settings"}

Routes == ReadRoutes \cup OperatorRoutes \cup AdminRoutes

\* The role given to RequireRole in the route's handler chain, "none" for a
\* route registered without RequireRole.
RequiredRole(route) ==
    CASE route \in OperatorRoutes -> UserRoleOperator
      [] route \in AdminRoutes -> UserRoleAdmin
      [] OTHER -> "none"

\* Tokens a client can present: signed by the server for a user of each role,
\* signed and expired, or not signed with the server's secret.
ValidTokens == {"tok_viewer", "tok_operator", "tok_admin"}
Tokens == ValidTokens \cup {"tok_expired", "tok_forged"}

\* Authorization headers, as the sequence of their parts; <<>> is the missing
\* (empty) header.
Headers ==
    {<<>>, <<"Bearer ">>, <<"bearer ", "tok_admin">>, <<"Basic ", "tok_admin">>}
       \cup {<<tok>> : tok \in Tokens}
       \cup {<<"Bearer ", tok>> : tok \in Tokens}

\* strings.TrimPrefix(authHeader, "Bearer ")
TrimPrefix(h, prefix) == IF Len(h) > 0 /\ h[1] = prefix THEN Tail(h) ELSE h

\* AuthService.ValidateToken: the role in the claims of a token that parses,
\* carries a valid signature and has not expired; "invalid" for an error.
ValidateToken(token) ==
    IF Len(token) = 1 /\ token[1] \in ValidTokens
    THEN CASE token[1] = "tok_viewer" -> UserRoleViewer
           [] token[1] = "tok_operator" -> UserRoleOperator
           [] token[1] = "tok_admin" -> UserRoleAdmin
    ELSE "invalid"

roleHierarchyFlat(role) == 1

\* RequireRole: roleHierarchy[role]; a role missing from the map has rank 0.
roleHierarchy(role) ==
    CASE role = UserRoleViewer -> 1
      [] role = UserRoleOperator -> 2
      [] role = UserRoleAdmin -> 3
      [] OTHER -> 0

\* Bodies of a create request: malformed, or with name and source_url.
Bodies ==
    {[ok |-> FALSE, name |-> "", src |-> ""]}
       \cup [ok : {TRUE}, name : {"", "a"}, src : {"", "rtmp://s"}]

\* The server receives a request.
Receive ==
    /\ hPhase \in {"idle", "done"}
    /\ requests < MaxRequests
    /\ requests' = requests + 1
    /\ \E route \in Routes, h \in Headers :
          /\ hRoute' = route
          /\ hHeader' = h
          /\ \E b \in Bodies :
                hBody' = IF route = "POST /channels" THEN b ELSE NoBody
    /\ hPhase' = "auth"
    /\ hRole' = "-"
    /\ hCode' = 0
    /\ hRan' = FALSE
    /\ UNCHANGED <<tableVars, w, wend, dir, status, autoRestart, moreVars, apiVars, bootVars, pc,
                   threadVars, batchVars, resultVars, calls, histVars, created>>

\* The chain stops with a response.
Respond(code) ==
    /\ hCode' = code
    /\ hPhase' = "done"

\* AuthMiddleware.Authenticate
Authenticate ==
    /\ hPhase = "auth"
    /\ IF hHeader = <<>>
       THEN Respond(401) /\ UNCHANGED hRole
       ELSE IF TrimPrefix(hHeader, "Bearer ") = hHeader
       THEN Respond(401) /\ UNCHANGED hRole
       ELSE IF ValidateToken(TrimPrefix(hHeader, "Bearer ")) = "invalid"
       THEN Respond(401) /\ UNCHANGED hRole
       ELSE /\ hRole' = ValidateToken(TrimPrefix(hHeader, "Bearer "))
            /\ hPhase' = IF RequiredRole(hRoute) = "none" THEN "handler" ELSE "role"
            /\ UNCHANGED hCode
    /\ UNCHANGED <<tableVars, w, wend, dir, status, autoRestart, moreVars, apiVars, bootVars, pc,
                   threadVars, batchVars, resultVars, calls, histVars, created, hRoute,
                   hHeader, hBody, hRan, requests>>

\* AuthMiddleware.RequireRole(requiredRole)
RequireRole ==
    /\ hPhase = "role"
    /\ IF hRole \notin UserRoles
       THEN Respond(401)
       ELSE IF roleHierarchy(hRole) < roleHierarchy(RequiredRole(hRoute))
       THEN Respond(403)
       ELSE hPhase' = "handler" /\ UNCHANGED hCode
    /\ UNCHANGED <<tableVars, w, wend, dir, status, autoRestart, moreVars, apiVars, bootVars, pc,
                   threadVars, batchVars, resultVars, calls, histVars, created, hRoute,
                   hHeader, hRole, hBody, hRan, requests>>

\* ChannelService.CreateChannel: `name == "" || sourceURL == ""`
ErrInvalidChannel(name, src) == name = "" \/ src = ""

\* ChannelHandler.Create: a body that does not parse is answered 400, every
\* error of CreateChannel 500, a created channel 201.
Create ==
    /\ hPhase = "handler"
    /\ hRoute = "POST /channels"
    /\ hRan' = TRUE
    /\ IF ~hBody.ok
       THEN Respond(400) /\ UNCHANGED created
       ELSE IF ErrInvalidChannel(hBody.name, hBody.src)
       THEN Respond(500) /\ UNCHANGED created
       ELSE /\ created' = Append(created, <<hBody.name, hBody.src>>)
            /\ Respond(201)
    /\ UNCHANGED <<tableVars, w, wend, dir, status, autoRestart, moreVars, apiVars, bootVars, pc,
                   threadVars, batchVars, resultVars, calls, histVars, hRoute, hHeader,
                   hRole, hBody, requests>>

\* Any other handler is invoked and answers.
Handle ==
    /\ hPhase = "handler"
    /\ hRoute # "POST /channels"
    /\ hRan' = TRUE
    /\ Respond(200)
    /\ UNCHANGED <<tableVars, w, wend, dir, status, autoRestart, moreVars, apiVars, bootVars, pc,
                   threadVars, batchVars, resultVars, calls, histVars, created, hRoute,
                   hHeader, hRole, hBody, requests>>

\* ------------------------------------------------------- startup tasks (main)

\* What an entry of the HLS root can be: absent, a file, or a channel
\* subdirectory holding playlist and segment files.
EntryValues ==
    {NoEntry, [kind |-> "file", files |-> {}]}
       \cup {[kind |-> "dir", files |-> F] : F \in SUBSET SegmentFiles}

\* The supervisor boots with any rows in the channels table and any tree under
\* the HLS root; no process is recorded and no request is in progress.
InitBoot ==
    /\ InitManager
    /\ InitHttp
    /\ status \in UNION {[S -> ChannelStatus] : S \in SUBSET StoredChannels}
    /\ row = [c \in DOMAIN status |-> "a"]
    /\ settings = DefaultMaxChannels
    /\ boot = "clean"
    /\ hls \in [HlsEntries -> EntryValues]
    /\ stoppedCount = 0

\* filepath.Walk(hlsPath, walkFn) over the entries of the root from the i-th
\* on, in lexical order.  walkFn removes a file with os.Remove and a directory
\* with os.RemoveAll.  Walk has read the names in a directory before it calls
\* walkFn on it, so after RemoveAll it calls walkFn for the first name with
\* the lstat error; walkFn returns that error and the whole walk ends.
RECURSIVE WalkFrom(_, _)
WalkFrom(tree, i) ==
    IF i > MaxEntries THEN tree
    ELSE IF tree[i].kind = "none" THEN WalkFrom(tree, i + 1)
    ELSE IF tree[i].kind = "dir" /\ tree[i].files # {}
    THEN [tree EXCEPT ![i] = NoEntry]
    ELSE WalkFrom([tree EXCEPT ![i] = NoEntry], i + 1)

\* main: cleanHLSHistory(cfg.Storage.HLSPath, log); a walk error is logged.
CleanHLSHistory ==
    /\ boot = "clean"
    /\ hls' = WalkFrom(hls, 1)
    /\ boot' = "reconcile"
    /\ UNCHANGED <<tableVars, w, wend, dir, status, autoRestart, moreVars, apiVars, httpVars, pc,
                   threadVars, batchVars, resultVars, calls, histVars, stoppedCount>>

NeedsStopRunningOnly(st) == st = ChannelStatusRunning

\* stopAllRunningChannels: `channel.Status == running || channel.Status == starting`
NeedsStop(st) == st \in {ChannelStatusRunning, ChannelStatusStarting}

\* main: stopAllRunningChannels(channelRepo, log), before the HTTP server is
\* started: for every row of GetAll, UpdateStatus(stopped) if it needs it.
StopAllRunningChannels ==
    /\ boot = "reconcile"
    /\ status' = [c \in DOMAIN status |->
                     IF NeedsStop(status[c]) THEN ChannelStatusStopped ELSE status[c]]
    /\ stoppedCount' = Cardinality({c \in DOMAIN status : NeedsStop(status[c])})
    /\ boot' = "serving"
    /\ UNCHANGED <<tableVars, w, wend, dir, autoRestart, moreVars, apiVars, httpVars, pc,
                   threadVars, batchVars, resultVars, calls, histVars, hls>>

\* ------------------------------------------------- log buffer (process.go)

\* ProcessManager after a successful Start of c1: the Process is recorded, the
\* child runs and its monitor and watcher goroutines wait for it.
InitRunning ==
    /\ processes = [c \in Channels |-> 1]
    /\ child = [p \in Pids |-> IF p = 1 THEN "running" ELSE "none"]
    /\ chanOf = [p \in Pids |-> IF p = 1 THEN "c1" ELSE "-"]
    /\ w = [p \in Pids |-> IF p = 1 THEN "wait" ELSE "none"]
    /\ wend = [p \in Pids |-> "none"]
    /\ dir = [c \in Channels |-> TRUE]
    /\ nextPid = 2
    /\ monitor = [p \in Pids |-> IF p = 1 THEN "scan" ELSE "none"]

\* lines the monitor may have scanned when the observation begins
ScannedAtStart == (LogLimit - 2)..LogLimit

\* Process.Logs after monitorProgress has scanned lines 1..n of a child
LogsAfter(n) ==
    IF n > LogLimit THEN [i \in 1..LogLimit |-> n - LogLimit + i] ELSE [i \in 1..n |-> i]

\* A LiveProcess of c1 is recorded and its child runs; the monitor has scanned
\* the lines the child wrote so far and nobody reads the logs.
InitLogs ==
    /\ InitCallers
    /\ InitStore
    /\ InitHttp
    /\ InitServing
    /\ \E n \in ScannedAtStart :
          /\ Logs = [p \in Pids |-> IF p = 1 THEN LogsAfter(n) ELSE <<>>]
          /\ lineCount = [p \in Pids |-> IF p = 1 THEN n ELSE 0]
    /\ pipe = [p \in Pids |-> <<>>]
    /\ exitLine = [p \in Pids |-> FALSE]
    /\ glPc = "idle"
    /\ glProc = None
    /\ logsOut = <<>>
    /\ glErr = "none"
    /\ InitHandlers
    /\ InitSystem
    /\ InitRepo
    /\ InitLock
    /\ InitPool
    /\ InitMutex
    /\ deletedRows = {}
    /\ InitLimit
    /\ InitDoc
    /\ autoRestart = [c \in Channels |-> FALSE]
    /\ InitRunning

\* The child writes its next line to stderr.
ChildWrites(p) ==
    /\ child[p] = "running"
    /\ Len(pipe[p]) < PipeLines
    /\ lineCount[p] + Len(pipe[p]) < LogLimit + MaxExtraLines
    /\ pipe' = [pipe EXCEPT ![p] = Append(pipe[p], lineCount[p] + Len(pipe[p]) + 1)]
    /\ UNCHANGED <<coreVars, poolVars, mutexVars, sysVars, repoVars, lockVars,
                   Logs, lineCount, monitor, exitLine, glPc, glProc, logsOut, glErr, handlerVars>>

\* monitorProgress: `if len(process.Logs) > 500 { process.Logs = process.Logs[len-500:] }`
Trim(logs) ==
    IF Len(logs) > LogLimit THEN SubSeq(logs, Len(logs) - LogLimit + 1, Len(logs))
    ELSE logs

\* monitorProgress, one iteration of `for scanner.Scan()`: the line is appended
\* to Process.Logs under logMu and the buffer is cut to its last 500 lines.
MonitorProgress(p) ==
    /\ monitor[p] = "scan"
    /\ pipe[p] # <<>>
    /\ lineCount' = [lineCount EXCEPT ![p] = lineCount[p] + 1]
    /\ Logs' = [Logs EXCEPT ![p] = Trim(Append(Logs[p], Head(pipe[p])))]
    /\ pipe' = [pipe EXCEPT ![p] = Tail(pipe[p])]
    /\ UNCHANGED <<coreVars, poolVars, mutexVars, sysVars, repoVars, lockVars,
                   monitor, exitLine, glPc, glProc, logsOut, glErr, handlerVars>>

\* monitorProgress returns: scanner.Scan() is false once the child is gone
\* (end of file, or the read end closed by Cmd.Wait); unread lines are lost.
MonitorEnds(p) ==
    /\ monitor[p] = "scan"
    /\ child[p] = "exited"
    /\ monitor' = [monitor EXCEPT ![p] = "done"]
    /\ pipe' = [pipe EXCEPT ![p] = <<>>]
    /\ UNCHANGED <<coreVars, poolVars, mutexVars, sysVars, repoVars, lockVars,
                   Logs, lineCount, exitLine, glPc, glProc, logsOut, glErr, handlerVars>>

\* watchProcess after Cmd.Wait() returned: the exit message is appended to
\* Process.Logs under logMu.
WatchExitLine(p) ==
    /\ w[p] = "wait"
    /\ child[p] = "exited"
    /\ ~exitLine[p]
    /\ Logs' = [Logs EXCEPT ![p] = Append(Logs[p], ExitLine)]
    /\ exitLine' = [exitLine EXCEPT ![p] = TRUE]
    /\ UNCHANGED <<coreVars, poolVars, mutexVars, sysVars, repoVars, lockVars,
                   lineCount, pipe, monitor, glPc, glProc, logsOut, glErr, handlerVars>>

\* watchProcess: the section under m.mu follows the exit message.
WatchLockLogged(p) == exitLine[p] /\ WatchLock(p)

\* ProcessManager.GetLogs, the lookup under m.mu.RLock: "channel is not running"
\* when there is no entry.
GetLogsEntry(c) ==
    IF processes[c] = None
    THEN /\ glErr' = "not_running"
         /\ glPc' = "idle"
         /\ glProc' = None
    ELSE /\ glPc' = "copy"
         /\ glProc' = processes[c]
         /\ UNCHANGED glErr

\* ProcessManager.GetLogs called directly.
GetLogsLookup(c) ==
    /\ glPc = "idle"
    /\ GetLogsEntry(c)
    /\ UNCHANGED <<coreVars, poolVars, mutexVars, sysVars, repoVars, lockVars,
                   bufVars, logsOut, handlerVars>>

\* ProcessManager.GetLogs, the copy of Process.Logs under logMu.
GetLogsCopy ==
    /\ glPc = "copy"
    /\ logsOut' = Logs[glProc]
    /\ glPc' = "ret"
    /\ UNCHANGED <<coreVars, poolVars, mutexVars, sysVars, repoVars, lockVars,
                   bufVars, glProc, glErr, handlerVars>>

\* ProcessManager.GetLogs returns the copy to its caller.
GetLogsReturn ==
    /\ glPc = "ret"
    /\ glPc' = "idle"
    /\ glProc' = None
    /\ logsOut' = <<>>
    /\ glErr' = "nil"
    /\ UNCHANGED <<coreVars, poolVars, mutexVars, sysVars, repoVars, lockVars,
                   bufVars, handlerVars>>

\* ------------------------------ metrics and logs (facade and ChannelHandler)

\* GetProcess, a lookup that finds every channel
GetProcessExistsAlways(c) == TRUE

\* ProcessManager.GetProcess: `process, exists := m.processes[channelID]`
GetProcessExists(c) == processes[c] # None

\* ChannelHandler.Metrics: GetChannelMetrics returns transcoder.GetProcess(id);
\* an error is answered 404, the metrics 200.
Metrics(c) ==
    /\ glPc = "idle"
    /\ obsErr' = IF GetProcessExists(c) THEN "nil" ELSE "not_running"
    /\ obsCode' = IF GetProcessExists(c) THEN 200 ELSE 404
    /\ UNCHANGED <<coreVars, poolVars, mutexVars, sysVars, repoVars, lockVars, bufVars, glPc, glProc, logsOut, glErr, glArg>>

\* ChannelHandler.Logs, GetChannelLogs: `if !s.transcoder.IsRunning(id)` returns
\* "channel is not running", which the handler answers 404.
LogsCheck(c) ==
    /\ glPc = "idle"
    /\ IF IsRunning(c)
       THEN /\ glPc' = "get"
            /\ glArg' = c
            /\ UNCHANGED <<obsErr, obsCode>>
       ELSE /\ obsErr' = "not_running"
            /\ obsCode' = 404
            /\ UNCHANGED <<glPc, glArg>>
    /\ UNCHANGED <<coreVars, poolVars, mutexVars, sysVars, repoVars, lockVars, bufVars, glProc, logsOut, glErr>>

\* GetChannelLogs: `return s.transcoder.GetLogs(id)`, the lookup; its error is
\* answered 404.
LogsGet ==
    /\ glPc = "get"
    /\ GetLogsEntry(glArg)
    /\ IF processes[glArg] = None
       THEN /\ obsErr' = "not_running"
            /\ obsCode' = 404
            /\ glArg' = "-"
       ELSE UNCHANGED <<obsErr, obsCode, glArg>>
    /\ UNCHANGED <<coreVars, poolVars, mutexVars, sysVars, repoVars, lockVars, bufVars, logsOut>>

\* ChannelHandler.Logs answers 200 with the lines GetLogs returned.
LogsAnswer ==
    /\ glPc = "ret"
    /\ glPc' = "idle"
    /\ glProc' = None
    /\ glArg' = "-"
    /\ logsOut' = <<>>
    /\ glErr' = "nil"
    /\ obsErr' = "nil"
    /\ obsCode' = 200
    /\ UNCHANGED <<coreVars, poolVars, mutexVars, sysVars, repoVars, lockVars, bufVars>>

\* --------------------------------------------- system information (system)

\* staticInfo, read once by init() from /proc/cpuinfo
staticInfo == [cpuCores |-> 4, cpuThreads |-> 8]

\* getCPUUsage, getUptime: (0, err) or a reading
ScalarProbes == {[err |-> TRUE, val |-> 0]} \cup {[err |-> FALSE, val |-> v] : v \in {0, 1}}

\* getMemoryInfo, the memoryInfo built from MemTotal and MemAvailable
memoryInfo(total, available) ==
    [Total |-> total,
     Used |-> IF total > 0 THEN total - available ELSE 0,
     Available |-> available,
     Percent |-> IF total > 0 THEN ((total - available) * 100) \div total ELSE 0]

\* getMemoryInfo: (nil, err) or a memoryInfo
MemProbes ==
    {[err |-> TRUE, val |-> ZeroMem]}
        \cup {[err |-> FALSE, val |-> memoryInfo(m[1], m[2])] : m \in {<<0, 0>>, <<4, 1>>}}

\* getLoadAverage: (nil, err) or the three averages
LoadProbes ==
    {[err |-> TRUE, val |-> <<>>]}
        \cup {[err |-> FALSE, val |-> l] : l \in {<<0, 0, 0>>, <<1, 2, 3>>}}

\* output of the GPU CLI: lines, each with its number of comma-separated
\* fields and its first field
GpuOutputs == {<<>>, <<[fields |-> 6, id |-> "0"]>>, <<[fields |-> 5, id |-> "0"]>>,
               <<[fields |-> 6, id |-> "0"], [fields |-> 6, id |-> "1"]>>}

RECURSIVE ParseGpuLines(_)
\* getGPUInfo, the loop over the lines: a line of fewer than 6 fields is skipped
ParseGpuLines(lines) ==
    IF lines = <<>> THEN <<>>
    ELSE IF Head(lines).fields < 6 THEN ParseGpuLines(Tail(lines))
    ELSE <<[ID |-> Head(lines).id]>> \o ParseGpuLines(Tail(lines))

\* getGPUInfo: (nil, err) when the CLI is missing or fails, else the parsed lines
GpuProbes ==
    {[err |-> TRUE, val |-> <<>>]}
        \cup {[err |-> FALSE, val |-> ParseGpuLines(o)] : o \in GpuOutputs}

\* outcomes of the five probes of one GetSystemInfo
ProbeOutcomes ==
    [ran : {TRUE}, cpu : ScalarProbes, mem : MemProbes, load : LoadProbes,
     uptime : ScalarProbes, gpu : GpuProbes]

\* GetSystemInfo, the struct the probes fill: the cached struct is reused
FreshInfoCached == sysData

\* GetSystemInfo: `info := &domain.SystemInfo{}`
FreshInfo == ZeroInfo

\* GetSystemInfo, cache miss: every probe whose err is nil sets its fields.
Probed(p) ==
    [FreshInfo EXCEPT
        !.CPUCores = staticInfo.cpuCores,
        !.CPUThreads = staticInfo.cpuThreads,
        !.CPUUsage = IF p.cpu.err THEN @ ELSE p.cpu.val,
        !.MemoryTotal = IF p.mem.err THEN @ ELSE p.mem.val.Total,
        !.MemoryUsed = IF p.mem.err THEN @ ELSE p.mem.val.Used,
        !.MemoryAvailable = IF p.mem.err THEN @ ELSE p.mem.val.Available,
        !.MemoryPercent = IF p.mem.err THEN @ ELSE p.mem.val.Percent,
        !.LoadAverage1 = IF p.load.err THEN @ ELSE p.load.val[1],
        !.LoadAverage5 = IF p.load.err THEN @ ELSE p.load.val[2],
        !.LoadAverage15 = IF p.load.err THEN @ ELSE p.load.val[3],
        !.Uptime = IF p.uptime.err THEN @ ELSE p.uptime.val,
        !.GPUs = IF p.gpu.err THEN @ ELSE p.gpu.val]

\* GetSystemInfo(): the cached copy while the cache is valid, else the probes
\* run under systemInfoCache.mu and the cache is replaced; the error is nil.
GetSystemInfo(p) ==
    /\ IF sysCache = "fresh"
       THEN /\ sysInfo' = sysData
            /\ sysProbes' = NoProbes
            /\ UNCHANGED <<sysCache, sysData, probeRuns>>
       ELSE /\ sysData' = Probed(p)
            /\ sysCache' = "fresh"
            /\ sysInfo' = Probed(p)
            /\ sysProbes' = p
            /\ probeRuns' = probeRuns + 1
    /\ sysErr' = "nil"
    /\ UNCHANGED <<coreVars, poolVars, mutexVars, logVars, repoVars, lockVars, gsiPc>>

\* `data != nil && time.Since(lastUpdate) < cacheExpiry`
CacheValid == sysCache = "fresh"

\* GetSystemInfo, the section under mu.RLock: a valid cache is copied and
\* returned; otherwise the caller goes on to mu.Lock().
GetSystemInfoRead(g) ==
    /\ gsiPc[g] = "idle"
    /\ IF CacheValid
       THEN /\ sysInfo' = sysData
            /\ sysProbes' = NoProbes
            /\ sysErr' = "nil"
            /\ UNCHANGED gsiPc
       ELSE /\ gsiPc' = [gsiPc EXCEPT ![g] = "lock"]
            /\ UNCHANGED <<sysInfo, sysProbes, sysErr>>
    /\ UNCHANGED <<coreVars, poolVars, mutexVars, logVars, repoVars, lockVars, sysCache, sysData,
                   probeRuns>>

\* GetSystemInfo without the second check
NoDoubleCheck == FALSE

\* the check repeated after mu.Lock()
DoubleCheck == CacheValid

\* GetSystemInfo, the section under mu.Lock (deferred Unlock): the check is
\* repeated; a cache still invalid is replaced by the result of the probes.
GetSystemInfoRefresh(g, p) ==
    /\ gsiPc[g] = "lock"
    /\ gsiPc' = [gsiPc EXCEPT ![g] = "idle"]
    /\ IF DoubleCheck
       THEN /\ sysInfo' = sysData
            /\ sysProbes' = NoProbes
            /\ UNCHANGED <<sysCache, sysData, probeRuns>>
       ELSE /\ sysData' = Probed(p)
            /\ sysCache' = "fresh"
            /\ sysInfo' = Probed(p)
            /\ sysProbes' = p
            /\ probeRuns' = probeRuns + 1
    /\ sysErr' = "nil"
    /\ UNCHANGED <<coreVars, poolVars, mutexVars, logVars, repoVars, lockVars>>

\* time.Since(systemInfoCache.lastUpdate) reaches cacheExpiry (5 s).
CacheExpires ==
    /\ sysCache = "fresh"
    /\ sysCache' = "expired"
    /\ probeRuns' = 0
    /\ UNCHANGED <<coreVars, poolVars, mutexVars, logVars, repoVars, lockVars, sysData, sysInfo,
                   sysErr, sysProbes, gsiPc>>

\* ------------------------------------- channel store (channel_repository.go)

\* A pointer is a sequence: <<>> is nil, <<v>> points to v.  A JSON text is
\* <<"null">> or <<"object", members>>; <<>> is the SQL NULL of a JSONB column.

\* *domain.LogoConfig values of the channels written
Logos == {<<>>, <<[Path |-> "logo.png", X |-> 10, Y |-> 20, Width |-> 0, Height |-> 0,
                   Opacity |-> 1]>>}

\* *domain.OutputConfig values of the channels written (the defaults of NewChannel)
OutputConfigs == {<<>>, <<[Codec |-> "libx264", Bitrate |-> "5000k",
                           Resolution |-> "1920x1080", Preset |-> "ultrafast",
                           Profile |-> ""]>>}

SourceURLs == {"u", "v"}

\* domain.Channel values passed to Create and Update
ChannelValues ==
    [Name : Names, SourceURL : SourceURLs, Logo : Logos, OutputConfig : OutputConfigs,
     Status : {ChannelStatusStopped}, AutoRestart : BOOLEAN]

\* json.Marshal(channel.Logo): the members carry the names of the json tags
MarshalLogo(logo) ==
    IF logo = <<>> THEN <<"null">>
    ELSE <<"object", [path |-> logo[1].Path, x |-> logo[1].X, y |-> logo[1].Y,
                      width |-> logo[1].Width, height |-> logo[1].Height,
                      opacity |-> logo[1].Opacity]>>

\* json.Unmarshal(text, &channel.Logo) into a nil pointer
UnmarshalLogo(text) ==
    IF text[1] = "null" THEN <<>>
    ELSE <<[Path |-> text[2].path, X |-> text[2].x, Y |-> text[2].y,
            Width |-> text[2].width, Height |-> text[2].height,
            Opacity |-> text[2].opacity]>>

\* json.Marshal(channel.OutputConfig)
MarshalOutput(out) ==
    IF out = <<>> THEN <<"null">>
    ELSE <<"object", [codec |-> out[1].Codec, bitrate |-> out[1].Bitrate,
                      resolution |-> out[1].Resolution, preset |-> out[1].Preset,
                      profile |-> out[1].Profile]>>

\* json.Unmarshal(text, &channel.OutputConfig) into a nil pointer
UnmarshalOutput(text) ==
    IF text[1] = "null" THEN <<>>
    ELSE <<[Codec |-> text[2].codec, Bitrate |-> text[2].bitrate,
            Resolution |-> text[2].resolution, Preset |-> text[2].preset,
            Profile |-> text[2].profile]>>

\* ChannelRepository.Create, the row of the INSERT
InsertRow(ch) ==
    [name |-> ch.Name, source_url |-> ch.SourceURL, logo |-> MarshalLogo(ch.Logo),
     output_config |-> MarshalOutput(ch.OutputConfig), status |-> ch.Status,
     auto_restart |-> ch.AutoRestart]

\* ChannelRepository.Update, a SET list that leaves auto_restart out
UpdateRowKeepsFlag(r, ch) ==
    [r EXCEPT !.name = ch.Name, !.source_url = ch.SourceURL, !.logo = MarshalLogo(ch.Logo),
              !.output_config = MarshalOutput(ch.OutputConfig)]

\* ChannelRepository.Update: `SET name, source_url, logo, output_config, auto_restart`
UpdateRow(r, ch) ==
    [r EXCEPT !.name = ch.Name, !.source_url = ch.SourceURL, !.logo = MarshalLogo(ch.Logo),
              !.output_config = MarshalOutput(ch.OutputConfig),
              !.auto_restart = ch.AutoRestart]

\* ChannelRepository.GetByID, the Channel scanned from row r: a NULL JSONB
\* column leaves the pointer nil
ScanRow(r) ==
    [Name |-> r.name, SourceURL |-> r.source_url,
     Logo |-> IF r.logo = <<>> THEN <<>> ELSE UnmarshalLogo(r.logo),
     OutputConfig |-> IF r.output_config = <<>> THEN <<>> ELSE UnmarshalOutput(r.output_config),
     Status |-> r.status, AutoRestart |-> r.auto_restart]

\* ChannelRepository.Create(channel): the INSERT fails on the primary key
\* when the id has a row.
RepoCreate(id, ch) ==
    /\ repoOp' = "create"
    /\ repoId' = id
    /\ repoArg' = <<ch>>
    /\ repoRet' = <<>>
    /\ IF id \in DOMAIN chanTable
       THEN /\ repoErr' = "error"
            /\ UNCHANGED chanTable
       ELSE /\ repoErr' = "nil"
            /\ chanTable' = [i \in DOMAIN chanTable \cup {id} |->
                                IF i = id THEN InsertRow(ch) ELSE chanTable[i]]
    /\ UNCHANGED <<coreVars, poolVars, mutexVars, logVars, sysVars, lockVars>>

\* ChannelRepository.Update(channel): the UPDATE of the row whose id is
\* channel.ID; no row matched is no error.
RepoUpdate(id, ch) ==
    /\ repoOp' = "update"
    /\ repoId' = id
    /\ repoArg' = <<ch>>
    /\ repoRet' = <<>>
    /\ repoErr' = "nil"
    /\ chanTable' = [i \in DOMAIN chanTable |->
                        IF i = id THEN UpdateRow(chanTable[i], ch) ELSE chanTable[i]]
    /\ UNCHANGED <<coreVars, poolVars, mutexVars, logVars, sysVars, lockVars>>

\* ChannelRepository.GetByID(id): "channel not found" when the query has no row.
RepoGetByID(id) ==
    /\ repoOp' = "get"
    /\ repoId' = id
    /\ IF id \in DOMAIN chanTable
       THEN /\ repoRet' = <<ScanRow(chanTable[id])>>
            /\ repoErr' = "nil"
       ELSE /\ repoRet' = <<>>
            /\ repoErr' = "not_found"
    /\ UNCHANGED <<coreVars, poolVars, mutexVars, logVars, sysVars, lockVars, chanTable, repoArg>>

\* ChannelRepository.Delete(id)
RepoDelete(id) ==
    /\ repoOp' = "delete"
    /\ repoId' = id
    /\ repoArg' = <<>>
    /\ repoRet' = <<>>
    /\ repoErr' = "nil"
    /\ chanTable' = [i \in DOMAIN chanTable \ {id} |-> chanTable[i]]
    /\ UNCHANGED <<coreVars, poolVars, mutexVars, logVars, sysVars, lockVars>>

\* ChannelRepository.UpdateStatus(id, status): the UPDATE of status alone
RepoUpdateStatus(id, st) ==
    /\ repoOp' = "status"
    /\ repoId' = id
    /\ repoArg' = <<>>
    /\ repoRet' = <<>>
    /\ repoErr' = "nil"
    /\ chanTable' = [i \in DOMAIN chanTable |->
                        IF i = id THEN [chanTable[i] EXCEPT !.status = st] ELSE chanTable[i]]
    /\ UNCHANGED <<coreVars, poolVars, mutexVars, logVars, sysVars, lockVars>>

\* ChannelService.UpdateChannel, the fields of the Channel read by GetByID
\* after the request was applied
Updated(channel, name, sourceURL, logo, output) ==
    [channel EXCEPT !.Name = IF name # "" THEN name ELSE @,
                    !.SourceURL = IF sourceURL # "" THEN sourceURL ELSE @,
                    !.Logo = logo,
                    !.OutputConfig = IF output # <<>> THEN output ELSE @]

\* ChannelService.UpdateChannel(id, name, sourceURL, logo, output): GetByID,
\* the IsRunning check, the fields, repo.Update.
UpdateChannelStored(id, name, sourceURL, logo, output) ==
    /\ repoOp' = "UpdateChannel"
    /\ repoId' = id
    /\ repoArg' = <<>>
    /\ repoRet' = <<>>
    /\ IF id \notin DOMAIN chanTable
       THEN /\ repoErr' = "not_found"
            /\ UNCHANGED chanTable
       ELSE IF IsRunning(id)
       THEN /\ repoErr' = "running"
            /\ UNCHANGED chanTable
       ELSE /\ repoErr' = "nil"
            /\ chanTable' =
                  [chanTable EXCEPT ![id] =
                     UpdateRow(@, Updated(ScanRow(@), name, sourceURL, logo, output))]
    /\ UNCHANGED <<coreVars, poolVars, mutexVars, logVars, sysVars, lockVars>>

\* --------------------------------------------------------------- behaviour

StartChannel(t) == \E c \in Channels : Call(t, "start", c)

StopChannel(t) == \E c \in Channels : Call(t, "stop", c)

RestartChannel(t) == \E c \in Channels : Call(t, "restart", c)

\* Steps of a facade call in progress.
FacadeStep(t) ==
    \/ ScCheck(t)
    \/ ScSync(t)
    \/ ScStarting(t)
    \/ ScStart(t)
    \/ ScErr(t)
    \/ ScOk(t)
    \/ StCheck(t)
    \/ StSync(t)
    \/ StStopping(t)
    \/ StopLock(t)
    \/ StopAbsent(t)
    \/ StopSignal(t)
    \/ StopWait(t)
    \/ StopKill(t)
    \/ StopRm(t)
    \/ StFin(t)

\* Steps of the children and of their watcher goroutines.
ProcessStep(p) ==
    \/ ChildExit(p)
    \/ WatchLock(p)
    \/ WatchManual(p)
    \/ WatchEarlyRm(p)
    \/ WatchEarlyCallback(p)
    \/ WatchNoRestart(p)
    \/ WatchRecheck(p)
    \/ WatchSkip(p)
    \/ WatchRestart(p)
    \/ WatchFailRm(p)
    \/ WatchFailCallback(p)

\* Single-channel operations called concurrently by HTTP handler goroutines.
Next ==
    \/ \E t \in Threads : StartChannel(t)
    \/ \E t \in Threads : StopChannel(t)
    \/ \E t \in Threads : RestartChannel(t)
    \/ \E t \in Threads : RcCheck(t)
    \/ \E t \in Threads : FacadeStep(t)
    \/ \E p \in Pids : ProcessStep(p)

Spec == Init /\ [][Next]_vars

DeleteChannel(t) == \E c \in Channels : Call(t, "delete", c)

\* DeleteChannel next to the other facade calls and the watchers.
NextDelete ==
    \/ Next
    \/ \E t \in Threads : DeleteChannel(t)
    \/ \E t \in Threads : DcCheck(t)
    \/ \E t \in Threads : DcDelete(t)

SpecDelete == Init /\ [][NextDelete]_vars

\* name given by an UpdateChannel request ("" leaves the name alone)
UpdateNames == Names \cup {""}

UpdateChannel(t) ==
    \E c \in Channels, n \in UpdateNames : ApiCall(t, "update", c, [name |-> n, max |-> NilInt])

\* max_channels of a settings request: not provided, out of range, in range
SettingsInputs == {NilInt, 0, 50}

UpdateSettings(t) ==
    \E v \in SettingsInputs : ApiCall(t, "settings", "-", [name |-> "", max |-> v])

Restart(t) == \E c \in Channels : ApiCall(t, "pmrestart", c, NoReq)

\* Steps of an UpdateChannel, settings or ProcessManager.Restart call in progress.
ApiStep(t) ==
    \/ UcCheck(t)
    \/ UcUpdate(t)
    \/ SuHandlerCheck(t)
    \/ SuServiceCheck(t)
    \/ SuGet(t)
    \/ SuSave(t)
    \/ PrCheck(t)
    \/ PrStart(t)

\* Lifecycle operations together with channel updates, settings updates and
\* ProcessManager.Restart, called concurrently.
NextApi ==
    \/ \E t \in Threads : StartChannel(t)
    \/ \E t \in Threads : StopChannel(t)
    \/ \E t \in Threads : UpdateChannel(t)
    \/ \E t \in Threads : UpdateSettings(t)
    \/ \E t \in Threads : Restart(t)
    \/ \E t \in Threads : ApiStep(t)
    \/ \E t \in Threads : FacadeStep(t)
    \/ \E p \in Pids : ProcessStep(p)

SpecApi == Init /\ [][NextApi]_vars

\* Requests to the protected routes, through the middleware chain.
NextHttp ==
    \/ Receive
    \/ Authenticate
    \/ RequireRole
    \/ Create
    \/ Handle

SpecHttp == Init /\ [][NextHttp]_vars

\* The startup tasks of main, in program order.
NextBoot ==
    \/ CleanHLSHistory
    \/ StopAllRunningChannels

SpecBoot == InitBoot /\ [][NextBoot]_vars

\* One recorded child: its stderr lines, its exit, and a reader of its logs.
NextLogs ==
    \/ \E p \in Pids : ChildWrites(p)
    \/ \E p \in Pids : MonitorProgress(p)
    \/ \E p \in Pids : MonitorEnds(p)
    \/ \E p \in Pids : ChildExit(p)
    \/ \E p \in Pids : WatchExitLine(p)
    \/ \E p \in Pids : WatchLockLogged(p)
    \/ \E c \in Channels : GetLogsLookup(c)
    \/ GetLogsCopy
    \/ GetLogsReturn

SpecLogs == InitLogs /\ [][NextLogs]_vars

Stop(t) == \E c \in Channels : ApiCall(t, "pmstop", c, NoReq)

\* Steps of a direct ProcessManager.Stop in progress.
StopStep(t) ==
    \/ StopLock(t)
    \/ StopAbsent(t)
    \/ StopSignal(t)
    \/ StopWait(t)
    \/ StopKill(t)
    \/ StopRm(t)
    \/ PsReturn(t)

\* The channel was never started, or its child runs.
InitObserve ==
    /\ InitCallers
    /\ InitStore
    /\ InitHttp
    /\ InitServing
    /\ InitLogVars
    /\ InitSystem
    /\ InitRepo
    /\ InitLock
    /\ InitPool
    /\ InitMutex
    /\ deletedRows = {}
    /\ InitLimit
    /\ InitDoc
    /\ autoRestart \in [Channels -> BOOLEAN]
    /\ \/ InitTable /\ monitor = [p \in Pids |-> "none"]
       \/ InitRunning

\* Steps of a child and of its watcher while nobody starts the channel again:
\* the entry the watcher deleted is still absent after the 2 s pause.
ExitStep(p) ==
    \/ ChildExit(p)
    \/ WatchLock(p)
    \/ WatchManual(p)
    \/ WatchEarlyRm(p)
    \/ WatchEarlyCallback(p)
    \/ WatchNoRestart(p)
    \/ WatchRecheck(p)
    \/ WatchSkip(p)

\* Metrics and Logs requests while the supervisor stops children and children
\* exit.
NextObserve ==
    \/ \E t \in Threads : Stop(t)
    \/ \E t \in Threads : StopStep(t)
    \/ \E p \in Pids : ExitStep(p)
    \/ \E c \in Channels : Metrics(c)
    \/ \E c \in Channels : LogsCheck(c)
    \/ LogsGet
    \/ GetLogsCopy
    \/ LogsAnswer

SpecObserve == InitObserve /\ [][NextObserve]_vars

\* ProcessManager.Stop: m.mu.Lock(), the lookup and delete, m.mu.Unlock()
LockedStopLock(t) == LockFree /\ StopLock(t)

\* watchProcess: m.mu.Lock(), stillInMap and delete, m.mu.Unlock()
LockedWatchLock(p) == LockFree /\ WatchLock(p)

\* watchProcess after the pause: m.mu.RLock(), shouldRestart, m.mu.RUnlock()
LockedWatchRecheck(p) == LockFree /\ WatchRecheck(p)

\* watchProcess: m.Start(process.Channel), which takes m.mu
LockedWatchRestart(p) == LockFree /\ WatchRestart(p)

\* Steps of a direct Stop; the section under m.mu waits for the lock.
LockedStopStep(t) ==
    \/ LockedStopLock(t)
    \/ StopAbsent(t)
    \/ StopSignal(t)
    \/ StopWait(t)
    \/ StopKill(t)
    \/ StopRm(t)
    \/ PsReturn(t)

\* Steps of a child and its watcher; the sections under m.mu and the restart
\* wait for the lock.
LockedProcessStep(p) ==
    \/ ChildExit(p)
    \/ LockedWatchLock(p)
    \/ WatchManual(p)
    \/ WatchEarlyRm(p)
    \/ WatchEarlyCallback(p)
    \/ WatchNoRestart(p)
    \/ LockedWatchRecheck(p)
    \/ WatchSkip(p)
    \/ LockedWatchRestart(p)
    \/ WatchFailRm(p)
    \/ WatchFailCallback(p)

\* Direct calls of ProcessManager.Start, Stop, IsRunning and SetStatusCallback by concurrent
\* goroutines, with m.mu modelled.
NextLock ==
    \/ \E c \in Channels : StartEnter(c)
    \/ StartFinish
    \/ \E t \in Threads : Stop(t)
    \/ \E t \in Threads : LockedStopStep(t)
    \/ \E p \in Pids : LockedProcessStep(p)
    \/ IsRunningCall
    \/ IsRunningReturn
    \/ \E cb \in StatusCallbacks : SetStatusCallbackLock(cb)
    \/ SetStatusCallbackStore

SpecLock == Init /\ [][NextLock]_vars

\* Calls of GetSystemInfo with any outcome of the host probes.
NextSystem ==
    \/ \E p \in ProbeOutcomes : GetSystemInfo(p)
    \/ CacheExpires

SpecSystem == Init /\ [][NextSystem]_vars

\* probe outcomes of a host whose probes all fail or all succeed
HostOutcomes ==
    {p \in ProbeOutcomes : {p.mem.err, p.load.err, p.uptime.err, p.gpu.err} = {p.cpu.err}}

\* Concurrent callers of GetSystemInfo while the cache expires.
NextCache ==
    \/ \E g \in Goroutines : GetSystemInfoRead(g)
    \/ \E g \in Goroutines, p \in HostOutcomes : GetSystemInfoRefresh(g, p)
    \/ CacheExpires

SpecCache == Init /\ [][NextCache]_vars

\* Calls of the channel repository, one at a time.
NextRepo ==
    \/ \E id \in Channels, ch \in ChannelValues : RepoCreate(id, ch)
    \/ \E id \in Channels, ch \in ChannelValues : RepoUpdate(id, ch)
    \/ \E id \in Channels : RepoGetByID(id)
    \/ \E id \in Channels : RepoDelete(id)

SpecRepo == Init /\ [][NextRepo]_vars

\* Channel updates on rows that were created and whose status was written.
NextUpdate ==
    \/ \E id \in Channels, ch \in ChannelValues : RepoCreate(id, ch)
    \/ \E id \in Channels, st \in ChannelStatus : RepoUpdateStatus(id, st)
    \/ \E id \in Channels, name \in Names \cup {""}, sourceURL \in SourceURLs \cup {""},
          logo \in Logos, output \in OutputConfigs :
            UpdateChannelStored(id, name, sourceURL, logo, output)

SpecUpdate == InitObserve /\ [][NextUpdate]_vars

\* Batch operations: the per-id calls are made by the workers of batchProcess.
NextBatch ==
    \/ BatchStartChannels
    \/ BatchStopChannels
    \/ \E t \in Threads : WorkerTake(t)
    \/ BatchCollect
    \/ \E t \in Threads : FacadeStep(t)
    \/ \E p \in Pids : ProcessStep(p)

SpecBatch == Init /\ [][NextBatch]_vars

\* batchProcess, worker body `err := processFunc(id); results <- job{id, err}`
\* for an arbitrary processFunc: the call returns nil or an error, whatever
\* it did to the channel.
ProcessFuncReturns(t) ==
    /\ worker[t]
    /\ pc[t] # "idle"
    /\ \E r \in {"started", "failed"} : Return(t, r)
    /\ UNCHANGED <<tableVars, w, wend, dir, status, envVars, batchVars, calls, histVars>>

\* batchProcess on its own, for any processFunc that returns.
NextBatchProcess ==
    \/ BatchStartChannels
    \/ BatchStopChannels
    \/ \E t \in Threads : WorkerTake(t)
    \/ \E t \in Threads : ProcessFuncReturns(t)
    \/ BatchCollect

SpecBatchProcess == Init /\ [][NextBatchProcess]_vars

TypeOK ==
    /\ processes \in [Channels -> Pids \cup {None}]
    /\ child \in [Pids -> {"none", "running", "killed", "exited"}]
    /\ \A c \in DOMAIN status : status[c] \in ChannelStatus
    /\ dir \in [Channels -> BOOLEAN]
    /\ nextPid \in 1..(MaxSpawns + 1)
    /\ nSucc + nFail <= Len(batchIds)

\* ------------------------------------------------------------------ claims

\* A goroutine takes the step that leaves program position l.
Leaves(t, l) == pc[t] = l /\ pc'[t] # l

WatcherLeaves(p, l) == w[p] = l /\ w'[p] # l

\* C1: for every channel at most one LiveProcess is recorded and a recorded
\* LiveProcess is never replaced by another one: a Start (from StartChannel or
\* from a watcher's auto-restart) that finds an entry for the channel returns
\* "already running", spawns nothing and leaves the entry alone.
C1_AtMostOneLiveProcess ==
    [][\A c \in Channels :
          processes[c] # None =>
             /\ processes'[c] \in {processes[c], None}
             /\ \A t \in Threads :
                   Leaves(t, "sc_start") /\ arg[t] = c =>
                      /\ ret'[t] = "already"
                      /\ pc'[t] = "sc_err"
                      /\ UNCHANGED <<processes, child, nextPid>>
             /\ \A p \in Pids :
                   WatcherLeaves(p, "restart") /\ chanOf[p] = c =>
                      /\ w'[p] = "fail_rm"
                      /\ UNCHANGED <<processes, child, nextPid>>]_vars

\* C1 witness: a StartChannel call has returned "already running" while a
\* LiveProcess of the channel is recorded.
C1_Witness ==
    /\ lastRet = "already"
    /\ \E c \in Channels : processes[c] # None /\ child[processes[c]] = "running"

\* C7: when Start fails at spawn no LiveProcess of the channel is in the table
\* and no child was spawned; StartChannel then writes status error and returns
\* the error to its caller.
C7_SpawnFailure ==
    [][\A t \in Threads :
          /\ (Leaves(t, "sc_start") /\ ret'[t] = "failed") =>
                /\ processes'[arg[t]] = None
                /\ pc'[t] = "sc_err"
                /\ UNCHANGED <<processes, child, w, nextPid>>
          /\ (Leaves(t, "sc_err") /\ ret[t] = "failed") =>
                /\ status'[arg[t]] = ChannelStatusError
                /\ pc'[t] = "idle"
                /\ lastRet' = "failed"
                /\ UNCHANGED <<processes, child, w, nextPid>>]_vars

\* C7 witness: a StartChannel call has returned a spawn failure; the status
\* is error, nothing is recorded and no child exists.
C7_Witness ==
    /\ lastRet = "failed"
    /\ \E c \in Channels : status[c] = ChannelStatusError /\ processes[c] = None
    /\ \A p \in Pids : child[p] = "none"

\* C9: StopChannel that finds no LiveProcess writes status stopped and returns
\* success; StartChannel that finds a LiveProcess writes status running, returns
\* success and spawns no child.
C9_FacadeIdempotence ==
    [][\A t \in Threads :
          /\ (Leaves(t, "st_check") /\ processes[arg[t]] = None) => pc'[t] = "st_sync"
          /\ (Leaves(t, "st_sync") /\ op[t] = "stop") =>
                /\ status'[arg[t]] = ChannelStatusStopped
                /\ pc'[t] = "idle"
                /\ lastRet' = "sync_stopped"
                /\ UNCHANGED <<processes, child, nextPid>>
          /\ (Leaves(t, "sc_check") /\ processes[arg[t]] # None) => pc'[t] = "sc_sync"
          /\ Leaves(t, "sc_sync") =>
                /\ status'[arg[t]] = ChannelStatusRunning
                /\ pc'[t] = "idle"
                /\ lastRet' = "sync_running"
                /\ UNCHANGED <<processes, child, nextPid>>]_vars

\* C9 witness: StartChannel on a running channel has returned success with the
\* one child still recorded and status running.
C9_Witness ==
    /\ lastRet = "sync_running"
    /\ nextPid = 2
    /\ \E c \in Channels : processes[c] = 1 /\ status[c] = ChannelStatusRunning

\* Child p is the child spawned last for its channel.
LatestChild(p) == \A q \in Pids : chanOf[q] = chanOf[p] => q <= p

\* C2: when Stop(c) returns, no child of c that was running when the call
\* entered Stop is still running, and the output directory of c is gone.
C2_StopKillsAndCleans ==
    [][\A t \in Threads :
          (Leaves(t, "stop_absent") \/ Leaves(t, "stop_rm")) =>
             /\ \A p \in stopSaw[t] : child'[p] # "running"
             /\ ~dir'[arg[t]]]_vars

\* C3: a watcher that entered the 2 s pause (auto-restart on, child ran at
\* least 10 s, LiveProcess still in the table at exit) does not give up the
\* restart unless a stop of the channel began during the pause.
C3_AutoRestart ==
    \A p \in Pids : wend[p] = "skip" => stopInPause[p]

\* C4: once the watcher of a channel's latest child has handled an exit before
\* 10 s and the StartChannel call that spawned the child has returned, with no
\* other facade call on the channel, the persisted status is stopped.
C4_EarlyExitStopped ==
    \A p \in Pids :
       (wend[p] = "early" /\ LatestChild(p) /\ Quiescent(chanOf[p]) /\ ~touched[chanOf[p]])
          => status[chanOf[p]] = ChannelStatusStopped

\* C5: in every quiescent state a channel without a LiveProcess has persisted
\* status stopped or error.
C5_NoProcessStoppedOrError ==
    \A c \in Channels :
       (Quiescent(c) /\ processes[c] = None)
          => status[c] \in {ChannelStatusStopped, ChannelStatusError}

\* C6: in every quiescent state a channel with a LiveProcess has persisted
\* status running.
C6_ProcessImpliesRunning ==
    \A c \in Channels :
       (Quiescent(c) /\ processes[c] # None) => status[c] = ChannelStatusRunning

\* C8: a LiveProcess is removed from the table only by Stop or by the watcher
\* of its own child; a watcher never removes the entry of another LiveProcess.
C8_RemovedByStopOrOwnWatcher ==
    [][\A c \in Channels :
          (processes[c] # None /\ processes'[c] = None) =>
             \/ \E t \in Threads : Leaves(t, "stop_lock") /\ arg[t] = c
             \/ WatcherLeaves(processes[c], "wait")]_vars

\* A list of ids names some channel more than once.
HasDuplicate(ids) == \E i, j \in 1..Len(ids) : i # j /\ ids[i] = ids[j]

\* C10: a batch whose id list repeats a channel id reports every occurrence
\* under success; after a batch start the channel has a LiveProcess and status
\* running, after a batch stop it has none and status stopped.
C10_DuplicateIdsSafe ==
    (/\ batchPhase = "done"
     /\ batchClean
     /\ HasDuplicate(batchIds)
     /\ \A i \in 1..Len(batchIds) : batchIds[i] \in Channels) =>
       /\ nFail = 0
       /\ \A i \in 1..Len(batchIds) :
             IF batchOp = "start"
             THEN /\ processes[batchIds[i]] # None
                  /\ status[batchIds[i]] = ChannelStatusRunning
             ELSE /\ processes[batchIds[i]] = None
                  /\ status[batchIds[i]] = ChannelStatusStopped

\* The ids of list l.
Ids(l) == {l[i] : i \in 1..Len(l)}

\* C11: when a batch operation has returned, for any id list (empty, with
\* duplicates, with unknown ids) the result holds as many entries as the list,
\* |success| + |failed| = |ids|, and every id of the result occurs in the list.
C11_BatchResultComplete ==
    batchPhase = "done" =>
       /\ Len(success) + Len(failed) = Len(batchIds)
       /\ Ids(success) \cup Ids(failed) \subseteq Ids(batchIds)

\* C11 witness: a batch over a known and an unknown id has returned with one
\* id under success and one under failed.
C11_Witness ==
    /\ batchPhase = "done"
    /\ Ids(batchIds) = Channels \cup UnknownIds
    /\ Len(success) = 1
    /\ Len(failed) = 1

\* C12: a settings update whose check (the handler's or the service's own)
\* finds a channel with persisted status running is answered 409 and leaves the
\* stored settings document unchanged.
C12_SettingsConflict ==
    [][\A t \in Threads :
          ((Leaves(t, "su_hcheck") \/ Leaves(t, "su_scheck")) /\ CheckRunningChannels) =>
             /\ pc'[t] = "idle"
             /\ lastRet' = "settings_409"
             /\ settings' = settings]_vars

\* The transitions of the persisted status that the state machine names.
StatusTransitions ==
    {<<ChannelStatusStopped, ChannelStatusStarting>>,
     <<ChannelStatusStarting, ChannelStatusRunning>>,
     <<ChannelStatusRunning, ChannelStatusStopping>>,
     <<ChannelStatusStopping, ChannelStatusStopped>>}

\* C15: every change of a channel's persisted status is stopped -> starting,
\* starting -> running, running -> stopping or stopping -> stopped, or a change
\* to error written because Start failed (in StartChannel or in the watcher's
\* auto-restart).
C15_StatusTransitions ==
    [][\A c \in Channels :
          status'[c] # status[c] =>
             \/ <<status[c], status'[c]>> \in StatusTransitions
             \/ /\ status'[c] = ChannelStatusError
                /\ \/ \E t \in Threads : Leaves(t, "sc_err") /\ arg[t] = c
                   \/ \E p \in Pids : WatcherLeaves(p, "fail_cb") /\ chanOf[p] = c]_vars

\* C18: ProcessManager.Restart on a channel without a LiveProcess goes on to
\* Start instead of returning an error, and when that Start spawns a child the
\* call returns success with the child recorded as the channel's LiveProcess.
C18_RestartWithoutProcessStarts ==
    [][\A t \in Threads :
          /\ (Leaves(t, "pr_check") /\ processes[arg[t]] = None) => pc'[t] = "pr_start"
          /\ (Leaves(t, "pr_start") /\ nextPid' # nextPid) =>
                /\ lastRet' = "started"
                /\ processes'[arg[t]] = nextPid]_vars

\* C19: UpdateChannel that finds a LiveProcess is answered 409 and leaves the
\* row unchanged, and repo.Update is never executed for a channel whose child
\* is running.
C19_NoUpdateWhileRunning ==
    [][\A t \in Threads :
          /\ (Leaves(t, "uc_check") /\ processes[arg[t]] # None) =>
                /\ lastRet' = "update_409"
                /\ row' = row
          /\ Leaves(t, "uc_update") =>
                \A p \in Pids : ~(chanOf[p] = arg[t] /\ child[p] = "running")]_vars

\* The Authorization header is missing, lacks the "Bearer " prefix, or carries
\* a token that is invalid or expired.
BadCredentials(h) ==
    \/ h = <<>>
    \/ h[1] # "Bearer "
    \/ Len(h) # 2
    \/ h[Len(h)] \notin ValidTokens

\* The role of the caller who presents header h.
CallerRole(h) == CASE h[Len(h)] = "tok_viewer" -> UserRoleViewer
                   [] h[Len(h)] = "tok_operator" -> UserRoleOperator
                   [] h[Len(h)] = "tok_admin" -> UserRoleAdmin

\* viewer < operator < admin
Rank(role) == CASE role = UserRoleViewer -> 1
                [] role = UserRoleOperator -> 2
                [] role = UserRoleAdmin -> 3

\* The minimum role of a route; a route without RequireRole is open to viewer.
MinRole(route) == IF RequiredRole(route) = "none" THEN UserRoleViewer
                  ELSE RequiredRole(route)

\* C16: a request to a protected route is answered 401, without running the
\* handler, when its credentials are bad; 403, without running the handler,
\* when the token is valid and the caller's role ranks below the route's
\* minimum role; the handler runs exactly when neither applies.
C16_AuthGate ==
    hPhase = "done" =>
       IF BadCredentials(hHeader)
       THEN hCode = 401 /\ ~hRan
       ELSE IF Rank(CallerRole(hHeader)) < Rank(MinRole(hRoute))
       THEN hCode = 403 /\ ~hRan
       ELSE hRan

\* C16 witness: an operator's valid token on an admin route was answered 403.
C16_Witness ==
    /\ hPhase = "done"
    /\ hHeader = <<"Bearer ", "tok_operator">>
    /\ hRoute = "DELETE /channels/:id"
    /\ hCode = 403
    /\ ~hRan

\* The minimum roles the route table is to grant.
GrantedRole(route) ==
    CASE route \in {"GET /channels", "GET /channels/:id", "GET /channels/metrics",
                    "GET /channels/:id/metrics", "GET /channels/:id/logs", "GET /settings",
                    "GET /system/info"} -> UserRoleViewer
      [] route \in {"POST /channels", "PUT /channels/:id", "POST /channels/:id/start",
                    "POST /channels/:id/stop", "POST /channels/:id/restart",
                    "POST /channels/batch/start", "POST /channels/batch/stop",
                    "POST /channels/batch/restart", "POST /uploads/logo"} -> UserRoleOperator
      [] route \in {"DELETE /channels/:id", "POST /channels/batch/delete",
                    "PUT /settings"} -> UserRoleAdmin
      [] OTHER -> "unspecified"

\* C17: with a valid token, a request to a read endpoint, a channel
\* create/update/lifecycle/logo-upload endpoint or a delete/settings-write
\* endpoint reaches its handler exactly when the caller's role is at least
\* viewer, operator or admin respectively.
C17_RouteRoles ==
    (/\ hPhase = "done"
     /\ ~BadCredentials(hHeader)
     /\ GrantedRole(hRoute) # "unspecified") =>
       (hRan <=> Rank(CallerRole(hHeader)) >= Rank(GrantedRole(hRoute)))

\* C20: a create request whose body parses and has an empty name or an empty
\* source URL is answered with a 4xx status, and no channel row is inserted.
C20_CreateRejectsEmpty ==
    [][(/\ hPhase = "handler"
        /\ hPhase' = "done"
        /\ hRoute = "POST /channels"
        /\ hBody.ok
        /\ (hBody.name = "" \/ hBody.src = "")) =>
           /\ hCode' \in 400..499
           /\ created' = created]_vars

C14_HlsRootEmpty ==
    boot \in {"reconcile", "serving"} => \A e \in HlsEntries : hls[e] = NoEntry

\* C21: at every instant the log buffer of a LiveProcess holds at most 500
\* lines, and GetLogs never returns more than 500 lines.
C21_LogBound ==
    /\ \A p \in Pids : Len(Logs[p]) <= LogLimit
    /\ Len(logsOut) <= LogLimit

\* C22: GetSystemInfo never returns an error, whatever subset of the host
\* probes fails; every probe that failed leaves its fields at zero, and a failed
\* GPU probe yields an empty GPU list.
C22_ProbeFailuresTolerated ==
    /\ sysErr # "error"
    /\ sysProbes.ran =>
         /\ sysProbes.cpu.err => sysInfo.CPUUsage = 0
         /\ sysProbes.mem.err => /\ sysInfo.MemoryTotal = 0
                                 /\ sysInfo.MemoryUsed = 0
                                 /\ sysInfo.MemoryAvailable = 0
                                 /\ sysInfo.MemoryPercent = 0
         /\ sysProbes.load.err => /\ sysInfo.LoadAverage1 = 0
                                  /\ sysInfo.LoadAverage5 = 0
                                  /\ sysInfo.LoadAverage15 = 0
         /\ sysProbes.uptime.err => sysInfo.Uptime = 0
         /\ sysProbes.gpu.err => sysInfo.GPUs = <<>>

\* every probe fails on a refresh, and the call returns the static fields only
C22_Witness ==
    /\ sysProbes.ran
    /\ sysProbes.cpu.err
    /\ sysProbes.mem.err
    /\ sysProbes.load.err
    /\ sysProbes.uptime.err
    /\ sysProbes.gpu.err
    /\ sysErr = "nil"
    /\ sysCache = "fresh"
    /\ sysInfo.CPUCores = staticInfo.cpuCores

\* the five fields of a Channel the round trip is about
Written(ch) ==
    <<ch.Name, ch.SourceURL, ch.Logo, ch.OutputConfig, ch.AutoRestart>>

\* C24: a GetByID that follows a successful Create, or an Update of a channel
\* that has a row, returns the name, source URL, logo config, output config
\* and auto-restart flag that were written.
C24_StoreRoundTrip ==
    [][(/\ repoOp \in {"create", "update"}
        /\ repoErr = "nil"
        /\ repoId \in DOMAIN chanTable
        /\ repoOp' = "get"
        /\ repoId' = repoId) =>
           /\ repoErr' = "nil"
           /\ Written(repoRet'[1]) = Written(repoArg[1])]_vars

\* GetByID has returned a channel with a logo after an Update that changed
\* the name and the auto-restart flag a Create had written
C24_Witness ==
    /\ repoOp = "get"
    /\ repoErr = "nil"
    /\ repoArg # <<>>
    /\ repoRet # <<>>
    /\ repoRet[1].Logo # <<>>
    /\ repoRet[1].OutputConfig # <<>>
    /\ repoRet[1].Name = "b"
    /\ repoRet[1].AutoRestart
    /\ Written(repoRet[1]) = Written(repoArg[1])

\* C23: GetProcess and GetLogs for a channel that has no entry in the table
\* return the not-running error and the Metrics and Logs handlers answer 404;
\* metrics and logs are served only for a channel that has an entry.
C23_AbsentIsNotFound ==
    [][\A c \in Channels :
          /\ (Metrics(c) /\ processes[c] = None) =>
                (obsErr' = "not_running" /\ obsCode' = 404)
          /\ (Metrics(c) /\ obsCode' = 200) => processes[c] # None
          /\ (LogsCheck(c) /\ processes[c] = None) =>
                (obsErr' = "not_running" /\ obsCode' = 404)
          /\ (LogsGet /\ glArg = c /\ processes[c] = None) =>
                (glErr' = "not_running" /\ obsErr' = "not_running" /\ obsCode' = 404)
          /\ (LogsGet /\ glArg = c /\ glPc' = "copy") => processes[c] # None]_vars

\* a handler has answered 404 with the not-running error for a channel whose
\* child exited and was removed by its watcher
C23_Witness ==
    /\ obsCode = 404
    /\ obsErr = "not_running"
    /\ processes["c1"] = None
    /\ \E p \in Pids : chanOf[p] = "c1" /\ wend[p] \in {"early", "noauto"}

\* functions that are inside a blocking operation: a Start between MkdirAll and
\* cmd.Start, a Stop between its signal and the end of its waits
Blockers ==
    (IF spawning # "-" THEN {"Start"} ELSE {})
        \cup {t \in Threads : pc[t] \in {"stop_signal", "stop_wait", "stop_kill"}}

\* C25: m.mu is never held by a function that is inside a blocking operation
\* (the spawn of a child with its probes and settings reads, Stop's signal and
\* waits), so IsRunning never waits for the lock behind a spawn or a kill.
C25_NoBlockingUnderLock ==
    /\ mu \notin Blockers
    /\ (rdPc = "rlock" /\ mu # "free") => Blockers = {}

\* C26: the watcher of a child whose Process an explicit Stop took out of the
\* table ends on the stopped-manually branch: it never reaches the status
\* callback, the pause or Start; and a watcher in whose 2 s pause a stop of the
\* channel began does not go on to Start.
C26_StoppedNeverRestarted ==
    \A p \in Pids :
       /\ p \in byStop =>
             /\ w[p] \in {"wait", "manual_rm", "done"}
             /\ wend[p] \in {"none", "manual"}
       /\ stopInPause[p] =>
             /\ w[p] \in {"sleep", "skip_rm", "done"}
             /\ wend[p] \in {"none", "skip"}

\* C27: the output directory of a channel is never removed while a LiveProcess
\* of the channel is in the table, neither by the final wipe of a Stop nor by a
\* cleanup path of a watcher.
C27_DirKeptWhileRecorded ==
    [][\A c \in Channels : (dir[c] /\ ~dir'[c]) => processes[c] = None]_vars

\* children of channel c that are alive and were sent no fatal signal
Alive(c) == {p \in Pids : chanOf[p] = c /\ child[p] = "running"}

\* C28: at most one child per channel is alive, children without a table entry
\* included (a child that was sent a fatal signal is left out of the count),
\* and when no Start, Stop or watcher step is in progress every alive child of
\* the channel is the one recorded in the table.
C28_OneAliveChild ==
    \A c \in Channels :
       /\ Cardinality(Alive(c)) <= 1
       /\ (Quiescent(c) /\ mu = "free") => Alive(c) \subseteq {processes[c]}

\* C29: in every quiescent state a channel without a LiveProcess has no output
\* directory; a Start that failed after MkdirAll leaves none behind.
C29_NoProcessNoDir ==
    \A c \in Channels : (Quiescent(c) /\ processes[c] = None) => ~dir[c]

\* C30: a stop of a channel that has no LiveProcess succeeds and leaves no
\* output directory, when ProcessManager.Stop finds no entry and when the
\* facade's StopChannel finds the channel not running.
C30_StopAbsentWipes ==
    [][\A t \in Threads :
          /\ Leaves(t, "stop_absent") => ~dir'[arg[t]]
          /\ (Leaves(t, "st_sync") /\ op[t] = "stop") =>
                /\ lastRet' = "sync_stopped"
                /\ ~dir'[arg[t]]]_vars

\* the signals of sequence q
Signals(q) == [i \in 1..Len(q) |-> q[i].sig]

\* C31: Stop escalates in a fixed order: the Process is out of the table when
\* the cancel handle is invoked and the first signal is sent; the first signal
\* a child is sent is the graceful SIGTERM; a
\* SIGKILL is sent only after the 3 s wait ended with the child not exited;
\* and the directory is wiped as the last step, also after the 2 s wait.
C31_StopEscalation ==
    [][\A t \in Threads :
          /\ Leaves(t, "stop_signal") =>
                /\ processes[arg[t]] # stopProc[t]
                /\ pc'[t] = "stop_wait"
          /\ Leaves(t, "stop_wait") =>
                pc'[t] = IF child[stopProc[t]] = "exited" THEN "stop_rm" ELSE "stop_kill"
          /\ Leaves(t, "stop_kill") => pc'[t] = "stop_rm"
          /\ Leaves(t, "stop_rm") => ~dir'[arg[t]] /\ pc'[t] = AfterStop(t)
          /\ \A p \in Pids :
                sent'[p] # sent[p] =>
                   /\ Signals(sent'[p])[1] = "SIGTERM"
                   /\ \A i \in Len(sent[p]) + 1 .. Len(sent'[p]) :
                         sent'[p][i].sig = "SIGKILL" =>
                            (Leaves(t, "stop_kill") \/ stopProc[t] # p)]_vars

\* C32: a watcher reads the status callback only under m.mu, so no read
\* happens while a SetStatusCallback holds the lock to store a new value.
C32_CallbackUnderMutex ==
    [][\A p \in Pids :
          (WatcherLeaves(p, "early_cb") \/ WatcherLeaves(p, "fail_cb")) =>
             mu # "SetStatusCallback"]_vars

\* C33: during a batch at most concurrentLimit per-channel operations are in
\* progress at any instant, whatever the number of ids; the limit is 5 for the
\* start, stop and delete batches and 3 for the restart batch.
C33_AtMostLimitInProgress ==
    /\ [](Cardinality(poolRunning) <= concurrentLimit)
    /\ [][\A n \in 0..MaxPoolIds :
            /\ BatchRestartChannels(n) => concurrentLimit' = 3
            /\ (PoolBatchStart(n) \/ PoolBatchStop(n) \/ BatchDeleteChannels(n)) =>
                  concurrentLimit' = 5]_vars

\* five operations of a batch are in progress while an id still waits in jobs
C33_Witness ==
    /\ concurrentLimit = ConcurrentLimit
    /\ Cardinality(poolRunning) = ConcurrentLimit
    /\ poolJobs.buf # <<>>

\* a call of batchProcess has not returned yet
PoolBusy == poolPc \in {"send", "collect"}

\* the call returned with one result per id and all its workers have exited
PoolFinished ==
    /\ poolPc = "done"
    /\ poolRunning = {}
    /\ poolIdle = 0
    /\ poolExited = concurrentLimit
    /\ \A i \in 1..poolIds : poolGot[i] = 1

\* C34: when every per-channel operation returns, batchProcess returns: no
\* worker blocks forever on jobs or results, the collector receives exactly
\* one result per id and every worker exits once jobs is closed.
C34_BatchTerminates == PoolBusy ~> PoolFinished

\* a batch of more ids than workers has returned and its workers have exited
C34_Witness ==
    /\ PoolFinished
    /\ poolIds > concurrentLimit
    /\ concurrentLimit > 0

\* goroutine g is inside Lock() or RLock() and cannot return from it
Waiting(g) ==
    /\ Running(g)
    /\ \/ At(g).do = "Lock" /\ g \in pending[At(g).mu] /\ Holders(At(g).mu) # {}
       \/ At(g).do = "RLock" /\ (writer[At(g).mu] # "-" \/ pending[At(g).mu] # {})

\* the goroutines whose release or acquisition g waits for
WaitsFor(g) ==
    IF At(g).do = "Lock"
    THEN Holders(At(g).mu)
    ELSE pending[At(g).mu] \cup (IF writer[At(g).mu] = "-" THEN {} ELSE {writer[At(g).mu]})

\* C35: no interleaving of Start, Stop, Restart, IsRunning, GetProcess,
\* GetAllProcesses, GetLogs, SetStatusCallback, the monitor and the watcher
\* (with the watcher's own Start) deadlocks on m.mu, process.mu, process.logMu
\* and m.numaMu: no goroutine asks for a lock it already holds and no set of
\* goroutines waits in a cycle.
C35_NoLockDeadlock ==
    /\ \A g \in Goroutines :
          (Running(g) /\ At(g).do \in {"Lock", "RLock"}) => g \notin Holders(At(g).mu)
    /\ ~ \E S \in SUBSET Goroutines \ {{}} :
            \A g \in S : Waiting(g) /\ WaitsFor(g) \cap S # {}

\* GetAllProcesses holds m.mu for reading and waits in getProcessStats for
\* process.mu, which GetProcess holds for reading, while a Start waits for m.mu
C35_Witness ==
    \E g, h, k \in Goroutines :
        /\ gOp[g] = "GetAllProcesses" /\ g \in readers["m.mu"]
        /\ Waiting(g) /\ At(g).mu = "process.mu"
        /\ gOp[h] = "GetProcess" /\ h \in readers["process.mu"]
        /\ gOp[k] \in {"Start", "watchProcess"} /\ Waiting(k) /\ At(k).mu = "m.mu"

\* C36: when DeleteChannel(c) returns success the row of c is gone and the
\* table holds no Process of c, whatever StartChannel, RestartChannel and the
\* watcher do meanwhile; a Stop inside it never keeps the row from being
\* deleted.
C36_DeleteLeavesNothing ==
    [][\A t \in Threads :
          /\ (DcDelete(t) /\ lastRet' = "deleted") =>
                (arg[t] \in deletedRows' /\ processes'[arg[t]] = None)
          /\ (op[t] = "delete" /\ pc[t] \in {"stop_rm", "stop_absent"}
                /\ pc'[t] # pc[t]) => pc'[t] = "dc_delete"]_vars

\* C37: a GetSystemInfo call made while the cache is valid returns the cached
\* copy and runs no probe; of the callers that found the cache expired at the
\* same time only one runs the probes, the others return the value it stored.
C37_OneRefreshPerExpiry ==
    /\ [](probeRuns <= 1)
    /\ [][\A g \in Goroutines :
            /\ (GetSystemInfoRead(g) /\ sysCache = "fresh") =>
                  (sysInfo' = sysData /\ sysProbes' = NoProbes /\ sysData' = sysData
                   /\ gsiPc'[g] = "idle")
            /\ (gsiPc[g] = "lock" /\ gsiPc'[g] = "idle" /\ sysCache = "fresh") =>
                  (sysInfo' = sysData /\ sysProbes' = NoProbes /\ sysData' = sysData)]_vars

\* two callers missed the expired cache; one has run the probes and the other,
\* still before mu.Lock(), will find the value it stored
C37_Witness ==
    /\ probeRuns = 1
    /\ sysCache = "fresh"
    /\ sysProbes.ran
    /\ \E g \in Goroutines : gsiPc[g] = "lock"

\* C38: the number of LiveProcesses never exceeds max_channels of the system
\* settings; a Start that would exceed it is rejected.
C38_AtMostMaxChannels == activeProcessCount <= settings

\* C39: an accepted UpdateSettings changes the provided fields only and
\* leaves every other key of the stored `system` document as it was, also the
\* keys the request type does not carry such as threads_per_process; a
\* rejected request leaves the whole document unchanged.
C39_OtherKeysKept ==
    [][\A rq \in SettingsRequests :
          UpdateSettingsDoc(rq) =>
            IF docErr' = "nil"
            THEN /\ \A k \in DOMAIN rq : systemDoc'[k] = rq[k]
                 /\ \A k \in DOMAIN systemDoc \ DOMAIN rq :
                        k \in DOMAIN systemDoc' /\ systemDoc'[k] = systemDoc[k]
            ELSE systemDoc' = systemDoc]_vars

\* C40: UpdateChannel changes the provided fields only: an empty name, an
\* empty source URL, no logo and no output config leave the stored field as
\* it was, and the status and the auto-restart flag are never changed.
C40_OmittedFieldsKept ==
    [][\A id \in Channels, name \in Names \cup {""}, sourceURL \in SourceURLs \cup {""},
          logo \in Logos, output \in OutputConfigs :
            (UpdateChannelStored(id, name, sourceURL, logo, output) /\ repoErr' = "nil") =>
               /\ name = "" => chanTable'[id].name = chanTable[id].name
               /\ sourceURL = "" => chanTable'[id].source_url = chanTable[id].source_url
               /\ logo = <<>> => chanTable'[id].logo = chanTable[id].logo
               /\ output = <<>> => chanTable'[id].output_config = chanTable[id].output_config
               /\ chanTable'[id].status = chanTable[id].status
               /\ chanTable'[id].auto_restart = chanTable[id].auto_restart]_vars

====
